---- MODULE Spec2Model ----
(***************************************************************************)
(* A model of the spectral-line synthesis engine of the spectra            *)
(* repository: the enumeration of the allowed rotational lines of a        *)
(* vibrational band (band.py), the construction of a Simulation and its    *)
(* cross-band normalisation (simulation.py, main.py), and the aggregate    *)
(* convolved spectrum of a Sim on a shared grid (sim.py).                  *)
(*                                                                         *)
(* Real numbers are kept exact: an array of floats is a record             *)
(* [num, den] of integer numerators over one common denominator, and a     *)
(* denominator of 0 stands for the NaN that numpy yields for 0/0.          *)
(***************************************************************************)
EXTENDS Integers, Sequences, FiniteSets, TLC

VARIABLES
    rot_lvls,       \* Simulation.rot_lvls: the requested rotational levels
    band_list,      \* the band_list argument: requested (v', v'') pairs
    fc_data,        \* molecule.fc_data: Franck-Condon table [v'][v'']
    temp,           \* Simulation.temp
    pc,             \* position of the driver (Simulation.__init__ / main)
    vib_bands,      \* Simulation.vib_bands (band_list of main)
    max_fc,         \* Simulation.max_fc (local max_fc of main); 0 = not assigned
    max_fc_writes,  \* how many times max_fc has been computed
    result,         \* what the last normalisation call returned
    sim_bands,      \* Sim.bands: per band, the wavenumbers of its lines
    temp_trn,       \* Sim.temp_trn
    inst_broadening_wl, \* argument of Sim.all_conv_data
    granularity,    \* argument of Sim.all_conv_data
    conv_out,       \* what the aggregate call (Sim.all_conv_data,
                    \* Simulation.all_convolved_data) returned
    sim_obj,        \* the Sim object: its attributes and the constructor's position
    term_call,      \* the last call of a terms.py function and what it returned
    gui,            \* the GUI: the band field, the parsed bands, the messages shown
    par             \* the bands of a Simulation constructed in an arbitrary order

vars == <<rot_lvls, band_list, fc_data, temp, pc, vib_bands, max_fc,
          max_fc_writes, result, sim_bands, temp_trn, inst_broadening_wl,
          granularity, conv_out, sim_obj, term_call, gui, par>>

bandVars == <<rot_lvls, band_list, fc_data, temp, pc, vib_bands, max_fc,
              max_fc_writes, result>>

simVars == <<sim_bands, temp_trn, inst_broadening_wl, granularity, conv_out>>

extVars == <<sim_obj, term_call, gui, par>>

(***************************************************************************)
(* Bounds of the model.                                                    *)
(***************************************************************************)
MaxRot == 3
MaxBands == 2
MaxSimBands == 2
MaxSimLines == 2
MaxGran == 3
GRANULARITY == 3

(***************************************************************************)
(* Generic helpers.                                                        *)
(***************************************************************************)
MaxOf(S) == CHOOSE x \in S : \A y \in S : y <= x

MinOf(S) == CHOOSE x \in S : \A y \in S : x <= y

Abs(x) == IF x < 0 THEN -x ELSE x

Range(s) == {s[k] : k \in DOMAIN s}

\* the function f over 1..n as an explicit tuple
AsSeq(f) == SubSeq(f, 1, Len(f))

RECURSIVE Flatten(_)
Flatten(ss) == IF ss = <<>> THEN <<>> ELSE Head(ss) \o Flatten(Tail(ss))

RECURSIVE SumSeq(_)
SumSeq(s) == IF s = <<>> THEN 0 ELSE Head(s) + SumSeq(Tail(s))

\* all strictly ascending sequences over 0..n (what np.arange and sorted
\* level lists produce)
RECURSIVE AscendingSeqs(_)
AscendingSeqs(n) ==
    IF n < 0 THEN {<<>>}
    ELSE LET prev == AscendingSeqs(n - 1)
         IN prev \cup {Append(s, n) : s \in prev}

\* all sequences over S of length at most n
RECURSIVE SeqsUpTo(_, _)
SeqsUpTo(S, n) ==
    IF n = 0 THEN {<<>>}
    ELSE LET prev == SeqsUpTo(S, n - 1)
         IN prev \cup {Append(s, x) : s \in {t \in prev : Len(t) = n - 1}, x \in S}

(***************************************************************************)
(* The tabulated constants of the two electronic states and the            *)
(* Franck-Condon tables a Molecule can carry.                              *)
(***************************************************************************)
StateUp == [name |-> "B3Su-", t_e |-> 100, G |-> <<10, 30>>, B |-> 1]

StateLo == [name |-> "X3Sg-", t_e |-> 0, G |-> <<5, 20>>, B |-> 2]

FcData == << <<2, 1>>, <<3, 2>> >>

\* vibrational quantum numbers a user can request: one past the table
VibQns == 0 .. Len(StateUp.G)

\* the (v', v'') pairs a user can request: every tabulated pair, and one
\* pair past the table on either side
VibPairs == {p \in VibQns \X VibQns : p[1] + p[2] <= Len(StateUp.G)}

Temps == {0, 1}

\* instrument broadenings handed to intensities_inst
Broadenings == {0, 1}

(***************************************************************************)
(* band.py: enumeration of the allowed lines.                              *)
(***************************************************************************)
Line(rot_qn_up, rot_qn_lo, branch_idx_up, branch_idx_lo, branch) ==
    [rot_qn_up |-> rot_qn_up, rot_qn_lo |-> rot_qn_lo,
     branch_idx_up |-> branch_idx_up, branch_idx_lo |-> branch_idx_lo,
     branch |-> branch]

\* a variant whose second test also fires on equal indices and passes the
\* main label
branch_idx_step_dup(rot_qn_up, rot_qn_lo, branch_idx_up, branch_idx_lo, branch_main, branch_secondary) ==
    (IF branch_idx_up = branch_idx_lo
     THEN <<Line(rot_qn_up, rot_qn_lo, branch_idx_up, branch_idx_lo, branch_main)>>
     ELSE <<>>)
    \o
    (IF branch_idx_up >= branch_idx_lo /\ branch_secondary = "rq"
     THEN <<Line(rot_qn_up, rot_qn_lo, branch_idx_up, branch_idx_lo, branch_main)>>
     ELSE IF branch_idx_up <= branch_idx_lo /\ branch_secondary = "pq"
     THEN <<Line(rot_qn_up, rot_qn_lo, branch_idx_up, branch_idx_lo, branch_main)>>
     ELSE <<>>)

\* a variant whose satellite test ignores the family
branch_idx_step_nosat(rot_qn_up, rot_qn_lo, branch_idx_up, branch_idx_lo, branch_main, branch_secondary) ==
    (IF branch_idx_up = branch_idx_lo
     THEN <<Line(rot_qn_up, rot_qn_lo, branch_idx_up, branch_idx_lo, branch_main)>>
     ELSE <<>>)
    \o
    (IF branch_idx_up > branch_idx_lo
     THEN <<Line(rot_qn_up, rot_qn_lo, branch_idx_up, branch_idx_lo, branch_secondary)>>
     ELSE <<>>)

\* the body of the inner loop of get_branch_idx for one index pair
branch_idx_step(rot_qn_up, rot_qn_lo, branch_idx_up, branch_idx_lo, branch_main, branch_secondary) ==
    (IF branch_idx_up = branch_idx_lo
     THEN <<Line(rot_qn_up, rot_qn_lo, branch_idx_up, branch_idx_lo, branch_main)>>
     ELSE <<>>)
    \o
    (IF branch_idx_up > branch_idx_lo /\ branch_secondary = "rq"
     THEN <<Line(rot_qn_up, rot_qn_lo, branch_idx_up, branch_idx_lo, branch_secondary)>>
     ELSE IF branch_idx_up < branch_idx_lo /\ branch_secondary = "pq"
     THEN <<Line(rot_qn_up, rot_qn_lo, branch_idx_up, branch_idx_lo, branch_secondary)>>
     ELSE <<>>)

\* for branch_idx_up in branch_range: for branch_idx_lo in branch_range: ...
get_branch_idx(rot_qn_up, rot_qn_lo, branch_range, branch_main, branch_secondary) ==
    LET n == Len(branch_range)
    IN Flatten([k \in 1 .. n * n |->
                  branch_idx_step(rot_qn_up, rot_qn_lo,
                                  branch_range[((k - 1) \div n) + 1],
                                  branch_range[((k - 1) % n) + 1],
                                  branch_main, branch_secondary)])

\* a variant with the labels of the two families exchanged
get_allowed_branches_swapped(rot_qn_up, rot_qn_lo) ==
    LET branch_range == <<1, 2, 3>>
        delta_rot_qn == rot_qn_up - rot_qn_lo
    IN IF delta_rot_qn = 1
       THEN get_branch_idx(rot_qn_up, rot_qn_lo, branch_range, "p", "pq")
       ELSE IF delta_rot_qn = -1
       THEN get_branch_idx(rot_qn_up, rot_qn_lo, branch_range, "r", "rq")
       ELSE <<>>

\* a variant that takes any upward step for R and any downward step for P
get_allowed_branches_wide(rot_qn_up, rot_qn_lo) ==
    LET branch_range == <<1, 2, 3>>
        delta_rot_qn == rot_qn_up - rot_qn_lo
    IN IF delta_rot_qn >= 1
       THEN get_branch_idx(rot_qn_up, rot_qn_lo, branch_range, "r", "rq")
       ELSE IF delta_rot_qn <= -1
       THEN get_branch_idx(rot_qn_up, rot_qn_lo, branch_range, "p", "pq")
       ELSE <<>>

get_allowed_branches(rot_qn_up, rot_qn_lo) ==
    LET branch_range == <<1, 2, 3>>
        delta_rot_qn == rot_qn_up - rot_qn_lo
    IN IF delta_rot_qn = 1
       THEN get_branch_idx(rot_qn_up, rot_qn_lo, branch_range, "r", "rq")
       ELSE IF delta_rot_qn = -1
       THEN get_branch_idx(rot_qn_up, rot_qn_lo, branch_range, "p", "pq")
       ELSE <<>>

\* a variant that drops the parity filter on the lower level
get_allowed_lines_nofilter(lvls) ==
    LET m == Len(lvls)
    IN Flatten([k \in 1 .. m * m |->
                  get_allowed_branches(lvls[((k - 1) \div m) + 1],
                                       lvls[((k - 1) % m) + 1])])

\* a variant that pairs every odd lower level with both neighbours,
\* whether or not they were requested
get_allowed_lines_neighbours(lvls) ==
    LET m == Len(lvls)
    IN Flatten([k \in 1 .. m |->
                  IF lvls[k] % 2 = 1
                  THEN get_allowed_branches(lvls[k] - 1, lvls[k])
                       \o get_allowed_branches(lvls[k] + 1, lvls[k])
                  ELSE <<>>])

\* a variant whose outer loop runs over the lower level
get_allowed_lines_lomajor(lvls) ==
    LET m == Len(lvls)
    IN Flatten([k \in 1 .. m * m |->
                  LET rot_qn_lo == lvls[((k - 1) \div m) + 1]
                      rot_qn_up == lvls[((k - 1) % m) + 1]
                  IN IF rot_qn_lo % 2 = 1
                     THEN get_allowed_branches(rot_qn_up, rot_qn_lo)
                     ELSE <<>>])

\* for rot_qn_up in rot_lvls: for rot_qn_lo in rot_lvls: if rot_qn_lo % 2: ...
get_allowed_lines(lvls) ==
    LET m == Len(lvls)
    IN Flatten([k \in 1 .. m * m |->
                  LET rot_qn_up == lvls[((k - 1) \div m) + 1]
                      rot_qn_lo == lvls[((k - 1) % m) + 1]
                  IN IF rot_qn_lo % 2 = 1
                     THEN get_allowed_branches(rot_qn_up, rot_qn_lo)
                     ELSE <<>>])

(***************************************************************************)
(* terms.py and band.py: term values, band origin, Band construction.      *)
(***************************************************************************)
\* a variant that clamps the index and so finds an entry for every level
InTable_clamped(state, v_qn) == v_qn >= 0

\* state.constants["G"][v_qn]: defined only inside the tabulated range
InTable(state, v_qn) == (v_qn + 1) \in DOMAIN state.G

vibrational_term(state, v_qn) == state.G[v_qn + 1]

get_band_origin(vib_qn_up, vib_qn_lo) ==
    LET elc_energy == StateUp.t_e - StateLo.t_e
        vib_energy == vibrational_term(StateUp, vib_qn_up)
                      - vibrational_term(StateLo, vib_qn_lo)
    IN elc_energy + vib_energy

\* whether Band.__init__ runs to its end: both term lookups and the
\* Franck-Condon lookup fc_data[vib_qn_up][vib_qn_lo] find their entry
BandConstructible(vib_qn_up, vib_qn_lo, fc) ==
    /\ InTable(StateUp, vib_qn_up)
    /\ InTable(StateLo, vib_qn_lo)
    /\ (vib_qn_up + 1) \in DOMAIN fc
    /\ (vib_qn_lo + 1) \in DOMAIN fc[vib_qn_up + 1]

\* the statement of Band.__init__ that raises IndexError, if one does: the
\* band origin (line 21) is computed before the lines are enumerated (line
\* 22), the Franck-Condon factor is looked up after (line 23)
BandInitRaises(vib_qn_up, vib_qn_lo, fc) ==
    IF ~(InTable(StateUp, vib_qn_up) /\ InTable(StateLo, vib_qn_lo))
    THEN "raised_get_band_origin"
    ELSE IF ~BandConstructible(vib_qn_up, vib_qn_lo, fc)
    THEN "raised_franck_condon"
    ELSE "none"

\* Band.__init__
Band(vib_qn_up, vib_qn_lo, lvls, fc) ==
    [vib_qn_up     |-> vib_qn_up,
     vib_qn_lo     |-> vib_qn_lo,
     band_origin   |-> get_band_origin(vib_qn_up, vib_qn_lo),
     lines         |-> get_allowed_lines(lvls),
     franck_condon |-> fc[vib_qn_up + 1][vib_qn_lo + 1]]

(***************************************************************************)
(* The Line quantities the bands read: position and raw intensity.         *)
(***************************************************************************)
IsMain(line) == line.branch \in {"r", "p"}

line_rotational_term(state, rot_qn, branch_idx) ==
    state.B * rot_qn * (rot_qn + 1) + branch_idx

\* Line.wavenumber: band origin + (upper rotational term - lower one)
wavenumber(line, band_origin) ==
    band_origin + line_rotational_term(StateUp, line.rot_qn_up, line.branch_idx_up)
                - line_rotational_term(StateLo, line.rot_qn_lo, line.branch_idx_lo)

honl_london_factor(line) == IF IsMain(line) THEN line.rot_qn_lo + 2 ELSE 1

\* population weight; at temperature 0 every exponential underflows to 0
boltzmann_factor(line, t) ==
    IF t = 0 THEN 0
    ELSE (line.rot_qn_lo + 1) * (2 * line.branch_idx_lo + 1)

\* Line.intensity
intensity(line, t) == honl_london_factor(line) * boltzmann_factor(line, t)

(***************************************************************************)
(* band.py: per-band arrays and their normalisation.                       *)
(***************************************************************************)
wavenumbers_line(band) ==
    AsSeq([k \in 1 .. Len(band.lines) |-> wavenumber(band.lines[k], band.band_origin)])

\* divides by the sum of the intensities instead of their maximum
intensities_line_sum(band, sim_max_fc, t) ==
    LET raw == AsSeq([k \in 1 .. Len(band.lines) |-> intensity(band.lines[k], t)])
    IN IF Len(raw) = 0
       THEN [status |-> "ValueError", num |-> <<>>, den |-> 1]
       ELSE [status |-> "ok",
             num |-> AsSeq([k \in 1 .. Len(raw) |-> raw[k] * band.franck_condon]),
             den |-> SumSeq(raw) * sim_max_fc]

\* intensities_line /= np.max(intensities_line);
\* intensities_line *= self.franck_condon / self.sim.max_fc
\* (np.max of an empty array raises ValueError; 0/0 is NaN: den = 0)
intensities_line(band, sim_max_fc, t) ==
    LET raw == AsSeq([k \in 1 .. Len(band.lines) |-> intensity(band.lines[k], t)])
    IN IF Len(raw) = 0
       THEN [status |-> "ValueError", num |-> <<>>, den |-> 1]
       ELSE [status |-> "ok",
             num |-> AsSeq([k \in 1 .. Len(raw) |-> raw[k] * band.franck_condon]),
             den |-> MaxOf(Range(raw)) * sim_max_fc]

\* np.linspace(a, b, n) with endpoint: n points, the i-th a + i (b - a)/(n - 1)
linspace(a, b, n) ==
    [num |-> AsSeq([i \in 1 .. n |-> IF n = 1 THEN a ELSE a * (n - 1) + (i - 1) * (b - a)]),
     den |-> IF n <= 1 THEN 1 ELSE n - 1]

\* the per-band grid; np.min of an empty array raises ValueError
wavenumbers_conv(band) ==
    LET wl == wavenumbers_line(band)
    IN linspace(MinOf(Range(wl)), MaxOf(Range(wl)), GRANULARITY)

\* lineshape of one line at distance dnum/dden from its centre, times dden
lineshape(dnum, dden) ==
    LET h == 30 * dden - Abs(dnum) IN IF h > 0 THEN h ELSE 0

\* convolve.convolve_brod: superposition of every line's shape at every
\* grid point
convolve_brod(wns, ints, grid) ==
    [num |-> AsSeq([i \in 1 .. Len(grid.num) |->
                SumSeq([k \in 1 .. Len(wns) |->
                          ints.num[k] * lineshape(grid.num[i] - wns[k] * grid.den,
                                                  grid.den)])]),
     den |-> ints.den * grid.den]

\* the peak normalisation shared by intensities_conv and intensities_inst
normalise(arr, band, sim_max_fc) ==
    IF Len(arr.num) = 0
    THEN [status |-> "ValueError", num |-> <<>>, den |-> 1]
    ELSE [status |-> "ok",
          num |-> AsSeq([i \in 1 .. Len(arr.num) |-> arr.num[i] * band.franck_condon]),
          den |-> IF arr.den = 0 THEN 0 ELSE MaxOf(Range(arr.num)) * sim_max_fc]

intensities_conv(band, sim_max_fc, t) ==
    LET il == intensities_line(band, sim_max_fc, t)
    IN IF il.status # "ok" THEN il
       ELSE normalise(convolve_brod(wavenumbers_line(band), il,
                                    wavenumbers_conv(band)),
                      band, sim_max_fc)

\* convolve.convolve_inst: discrete convolution on the same grid with a
\* kernel whose width grows with the broadening
convolve_inst(arr, broadening) ==
    [num |-> AsSeq([i \in 1 .. Len(arr.num) |->
                SumSeq([j \in 1 .. Len(arr.num) |->
                          LET h == broadening + 1 - Abs(i - j)
                          IN arr.num[j] * (IF h > 0 THEN h ELSE 0)])]),
     den |-> arr.den]

intensities_inst(band, broadening, sim_max_fc, t) ==
    LET ic == intensities_conv(band, sim_max_fc, t)
    IN IF ic.status # "ok" THEN ic
       ELSE normalise(convolve_inst(ic, broadening), band, sim_max_fc)

\* the values of the variables a specification does not use
NoSim == [pc |-> "none"]

NoCall == [fn |-> "none"]

NoGui == [pc |-> "none"]

NoPar == [order |-> <<>>]

NoConv == [status |-> "none", grid |-> [num |-> <<>>, den |-> 1], ints |-> [num |-> <<>>, den |-> 1]]

(***************************************************************************)
(* simulation.py and main.py: construction, max_fc, normalisation calls.   *)
(***************************************************************************)
NoResult == [op |-> "none", band |-> 0, status |-> "none", num |-> <<>>, den |-> 1, read_max_fc |-> 0]

Returned(op, b, r) == [op |-> op, band |-> b, status |-> r.status, num |-> r.num, den |-> r.den, read_max_fc |-> max_fc]

\* takes the Franck-Condon factor of the first band only
compute_max_fc_first(bands) == bands[1].franck_condon

\* max(vib_band.franck_condon for vib_band in self.vib_bands)
compute_max_fc(bands) == MaxOf({bands[k].franck_condon : k \in DOMAIN bands})

Init ==
    /\ rot_lvls \in AscendingSeqs(MaxRot)
    /\ band_list \in SeqsUpTo(VibPairs, MaxBands)
    /\ fc_data = FcData
    /\ temp \in Temps
    /\ pc \in {"sim_init", "main_build"}
    /\ vib_bands = <<>>
    /\ max_fc = 0
    /\ max_fc_writes = 0
    /\ result = NoResult
    /\ sim_bands = <<>>
    /\ temp_trn = 0
    /\ inst_broadening_wl = 0
    /\ granularity = 0
    /\ conv_out = NoConv
    /\ sim_obj = NoSim
    /\ term_call = NoCall
    /\ gui = NoGui
    /\ par = NoPar

\* one element of the list comprehension of Simulation.__init__:
\* Band(vib_band[0], vib_band[1], self); an exception aborts construction
SimulationBuildBand ==
    /\ pc = "sim_init"
    /\ Len(vib_bands) < Len(band_list)
    /\ LET vib_band == band_list[Len(vib_bands) + 1]
       IN IF BandConstructible(vib_band[1], vib_band[2], fc_data)
          THEN /\ vib_bands' = Append(vib_bands, Band(vib_band[1], vib_band[2], rot_lvls, fc_data))
               /\ pc' = pc
          ELSE /\ vib_bands' = vib_bands
               /\ pc' = BandInitRaises(vib_band[1], vib_band[2], fc_data)
    /\ UNCHANGED <<rot_lvls, band_list, fc_data, temp, max_fc, max_fc_writes, result>>
    /\ UNCHANGED simVars
    /\ UNCHANGED extVars

\* self.max_fc = max(...) once the list of bands is complete; max() of an
\* empty sequence raises ValueError
SimulationMaxFc ==
    /\ pc = "sim_init"
    /\ Len(vib_bands) = Len(band_list)
    /\ IF vib_bands = <<>>
       THEN /\ pc' = "raised_max_fc"
            /\ UNCHANGED <<max_fc, max_fc_writes>>
       ELSE /\ max_fc' = compute_max_fc(vib_bands)
            /\ max_fc_writes' = max_fc_writes + 1
            /\ pc' = "ready"
    /\ UNCHANGED <<rot_lvls, band_list, fc_data, temp, vib_bands, result>>
    /\ UNCHANGED simVars
    /\ UNCHANGED extVars

\* a caller holding the constructed Simulation calls band.intensities_line()
IntensitiesLine(b) ==
    /\ pc = "ready"
    /\ result' = Returned("intensities_line", b, intensities_line(vib_bands[b], max_fc, temp))
    /\ UNCHANGED <<rot_lvls, band_list, fc_data, temp, pc, vib_bands, max_fc, max_fc_writes>>
    /\ UNCHANGED simVars
    /\ UNCHANGED extVars

IntensitiesConv(b) ==
    /\ pc = "ready"
    /\ result' = Returned("intensities_conv", b, intensities_conv(vib_bands[b], max_fc, temp))
    /\ UNCHANGED <<rot_lvls, band_list, fc_data, temp, pc, vib_bands, max_fc, max_fc_writes>>
    /\ UNCHANGED simVars
    /\ UNCHANGED extVars

IntensitiesInst(b, broadening) ==
    /\ pc = "ready"
    /\ result' = Returned("intensities_inst", b, intensities_inst(vib_bands[b], broadening, max_fc, temp))
    /\ UNCHANGED <<rot_lvls, band_list, fc_data, temp, pc, vib_bands, max_fc, max_fc_writes>>
    /\ UNCHANGED simVars
    /\ UNCHANGED extVars

\* main.py: band_list.append(bands.LinePlot(...)) for each band of VIB_BANDS
MainBuildBand ==
    /\ pc = "main_build"
    /\ Len(vib_bands) < Len(band_list)
    /\ LET vib_band == band_list[Len(vib_bands) + 1]
       IN IF BandConstructible(vib_band[1], vib_band[2], fc_data)
          THEN /\ vib_bands' = Append(vib_bands, Band(vib_band[1], vib_band[2], rot_lvls, fc_data))
               /\ pc' = pc
          ELSE /\ vib_bands' = vib_bands
               /\ pc' = BandInitRaises(vib_band[1], vib_band[2], fc_data)
    /\ UNCHANGED <<rot_lvls, band_list, fc_data, temp, max_fc, max_fc_writes, result>>
    /\ UNCHANGED simVars
    /\ UNCHANGED extVars

\* max_fc = max((band.get_fc(fc_data) for band in band_list))
MainMaxFc ==
    /\ pc = "main_build"
    /\ Len(vib_bands) = Len(band_list)
    /\ IF vib_bands = <<>>
       THEN /\ pc' = "raised_max_fc"
            /\ UNCHANGED <<max_fc, max_fc_writes>>
       ELSE /\ max_fc' = compute_max_fc(vib_bands)
            /\ max_fc_writes' = max_fc_writes + 1
            /\ pc' = "main_line"
    /\ UNCHANGED <<rot_lvls, band_list, fc_data, temp, vib_bands, result>>
    /\ UNCHANGED simVars
    /\ UNCHANGED extVars

\* if inp.LINE_DATA: line_data = [band.get_line(fc_data, max_fc) ...]
MainGetLine ==
    /\ pc = "main_line"
    /\ \E LINE_DATA \in BOOLEAN :
          result' = IF LINE_DATA
                    THEN [op |-> "get_line", band |-> 0, status |-> "ok",
                          num |-> AsSeq([k \in DOMAIN vib_bands |-> intensities_line(vib_bands[k], max_fc, temp)]),
                          den |-> 1, read_max_fc |-> max_fc]
                    ELSE result
    /\ pc' = "main_conv"
    /\ UNCHANGED <<rot_lvls, band_list, fc_data, temp, vib_bands, max_fc, max_fc_writes>>
    /\ UNCHANGED simVars
    /\ UNCHANGED extVars

\* if inp.CONV_DATA: conv_data = [band.get_conv(fc_data, max_fc) ...]
MainGetConv ==
    /\ pc = "main_conv"
    /\ \E CONV_DATA \in BOOLEAN :
          result' = IF CONV_DATA
                    THEN [op |-> "get_conv", band |-> 0, status |-> "ok",
                          num |-> AsSeq([k \in DOMAIN vib_bands |-> intensities_conv(vib_bands[k], max_fc, temp)]),
                          den |-> 1, read_max_fc |-> max_fc]
                    ELSE result
    /\ pc' = "main_done"
    /\ UNCHANGED <<rot_lvls, band_list, fc_data, temp, vib_bands, max_fc, max_fc_writes>>
    /\ UNCHANGED simVars
    /\ UNCHANGED extVars

Next ==
    \/ SimulationBuildBand
    \/ SimulationMaxFc
    \/ \E b \in DOMAIN vib_bands : IntensitiesLine(b)
    \/ \E b \in DOMAIN vib_bands : IntensitiesConv(b)
    \/ \E b \in DOMAIN vib_bands : \E broadening \in Broadenings : IntensitiesInst(b, broadening)
    \/ MainBuildBand
    \/ MainMaxFc
    \/ MainGetLine
    \/ MainGetConv

Spec == Init /\ [][Next]_vars

(***************************************************************************)
(* sim.py: the aggregate convolved spectrum of a Sim on one shared grid.   *)
(* A band of a Sim is the list of its lines, a line its wavenumber.        *)
(***************************************************************************)
\* line positions a band of a Sim can hold
Wavenumbers == {4, 12}

TranslationalTemps == {1, 2}

InstBroadenings == {0, 1, 2}

SimLine(w) == [wavenumber |-> w]

\* Line.fwhm_doppler: thermal width, growing with the translational
\* temperature and the line position
fwhm_doppler(line, t_trn) == (t_trn * line.wavenumber) \div 4

\* Line.fwhm_instrument: the instrument width given as a wavelength,
\* converted to wavenumber units at the line position
fwhm_instrument(line, inst_wl) == (inst_wl * line.wavenumber) \div 2

sim_wavenumbers_line(band) ==
    AsSeq([k \in 1 .. Len(band.lines) |-> band.lines[k].wavenumber])

\* Band.intensities_conv(fwhm_selections, inst_broadening_wl, wavenumbers_conv):
\* the band's lines superposed on the grid it is handed
sim_intensities_conv(band, inst_wl, grid) ==
    convolve_brod(sim_wavenumbers_line(band),
                  [num |-> AsSeq([k \in 1 .. Len(band.lines) |-> band.lines[k].wavenumber \div 4]),
                   den |-> 1],
                  grid)

AddArrays(x, y) == AsSeq([i \in 1 .. Len(x) |-> x[i] + y[i]])

\* a loop that overwrites the running sum with each band's contribution
RECURSIVE sum_bands_overwrite(_, _, _, _)
sum_bands_overwrite(bands, inst_wl, grid, acc) ==
    IF bands = <<>> THEN acc
    ELSE sum_bands_overwrite(Tail(bands), inst_wl, grid,
                             sim_intensities_conv(Head(bands), inst_wl, grid).num)

\* for band in self.bands: intensities_conv += band.intensities_conv(..., grid)
RECURSIVE sum_bands(_, _, _, _)
sum_bands(bands, inst_wl, grid, acc) ==
    IF bands = <<>> THEN acc
    ELSE sum_bands(Tail(bands), inst_wl, grid,
                   AddArrays(acc, sim_intensities_conv(Head(bands), inst_wl, grid).num))

Failed(kind) == [status |-> kind, grid |-> [num |-> <<>>, den |-> 1], ints |-> [num |-> <<>>, den |-> 1]]

\* Sim.all_conv_data
all_conv_data(bands, t_trn, inst_wl, n) ==
    IF bands = <<>>
    THEN Failed("ValueError")      \* np.concatenate of an empty list
    ELSE IF bands[1].lines = <<>>
    THEN Failed("IndexError")      \* self.bands[0].lines[0]
    ELSE
      LET wavenumbers_line_all == Flatten([b \in 1 .. Len(bands) |-> sim_wavenumbers_line(bands[b])])
          first   == fwhm_instrument(bands[1].lines[1], inst_wl)
          padding == 10 * (IF first > 2 THEN first ELSE 2)
          grid_min == MinOf(Range(wavenumbers_line_all)) - padding
          grid_max == MaxOf(Range(wavenumbers_line_all)) + padding
          wavenumbers_conv_all == linspace(grid_min, grid_max, n)
          zeros == AsSeq([i \in 1 .. n |-> 0])
      IN [status |-> "ok",
          grid   |-> wavenumbers_conv_all,
          ints   |-> [num |-> sum_bands(bands, inst_wl, wavenumbers_conv_all, zeros),
                      den |-> wavenumbers_conv_all.den]]

SimBandsOf(n, m) == SeqsUpTo({[lines |-> ls] : ls \in SeqsUpTo({SimLine(w) : w \in Wavenumbers}, m)}, n)

InitSim ==
    /\ rot_lvls = <<>>
    /\ band_list = <<>>
    /\ fc_data = FcData
    /\ temp = 0
    /\ pc = "sim"
    /\ vib_bands = <<>>
    /\ max_fc = 0
    /\ max_fc_writes = 0
    /\ result = NoResult
    /\ sim_bands \in SimBandsOf(MaxSimBands, MaxSimLines)
    /\ temp_trn \in TranslationalTemps
    /\ inst_broadening_wl \in InstBroadenings
    /\ granularity \in 0 .. MaxGran
    /\ conv_out = NoConv
    /\ sim_obj = NoSim
    /\ term_call = NoCall
    /\ gui = NoGui
    /\ par = NoPar

\* a caller holding the Sim calls all_conv_data(fwhm_selections,
\* inst_broadening_wl, granularity)
AllConvData ==
    /\ pc = "sim"
    /\ conv_out' = all_conv_data(sim_bands, temp_trn, inst_broadening_wl, granularity)
    /\ UNCHANGED <<sim_bands, temp_trn, inst_broadening_wl, granularity>>
    /\ UNCHANGED bandVars
    /\ UNCHANGED extVars

NextSim == AllConvData

SpecSim == InitSim /\ [][NextSim]_vars

(***************************************************************************)
(* simulation.py: the aggregate convolved spectrum of a Simulation, built  *)
(* by concatenating the line arrays of all bands and convolving once.      *)
(***************************************************************************)
RECURSIVE GCD(_, _)
GCD(a, b) == IF b = 0 THEN a ELSE GCD(b, a % b)

LCM(a, b) == IF a = 0 \/ b = 0 THEN 0 ELSE (a \div GCD(a, b)) * b

RECURSIVE LCMSeq(_)
LCMSeq(s) == IF s = <<>> THEN 1 ELSE LCM(Head(s), LCMSeq(Tail(s)))

\* exact float arithmetic on single values: a fraction in lowest terms,
\* the sum of two, the sum of a sequence, the quotient of two
Reduce(n, d) == LET g == GCD(Abs(n), Abs(d)) IN [num |-> n \div g, den |-> d \div g]

RatAdd(a, b) ==
    LET l == LCM(a.den, b.den)
    IN Reduce(a.num * (l \div a.den) + b.num * (l \div b.den), l)

RECURSIVE RatSum(_)
RatSum(s) == IF s = <<>> THEN [num |-> 0, den |-> 1] ELSE RatAdd(Head(s), RatSum(Tail(s)))

RatDiv(a, b) == Reduce(a.num * b.den, a.den * b.num)

\* np.concatenate of float arrays, brought to one common denominator; a NaN
\* entry (den = 0) turns every sum taken over the whole array into NaN
ConcatArrays(arrs) ==
    LET den == LCMSeq([b \in 1 .. Len(arrs) |-> arrs[b].den])
    IN [num |-> Flatten([b \in 1 .. Len(arrs) |->
                           AsSeq([k \in 1 .. Len(arrs[b].num) |->
                                    IF den = 0 THEN arrs[b].num[k]
                                    ELSE arrs[b].num[k] * (den \div arrs[b].den)])]),
        den |-> den]

\* a loop that keeps only the arrays of the band it visited last
all_convolved_data_last(bands, sim_max_fc, t) ==
    LET ils == AsSeq([b \in 1 .. Len(bands) |-> intensities_line(bands[b], sim_max_fc, t)])
    IN IF bands = <<>> \/ \E b \in 1 .. Len(bands) : ils[b].status # "ok"
       THEN Failed("ValueError")
       ELSE LET last == bands[Len(bands)]
                wl   == wavenumbers_line(last)
                grid == linspace(MinOf(Range(wl)), MaxOf(Range(wl)), GRANULARITY)
            IN [status |-> "ok",
                grid   |-> grid,
                ints   |-> convolve_brod(wl, ils[Len(bands)], grid)]

\* Simulation.all_convolved_data: intensities_line() of a band without lines
\* raises ValueError (np.max), and so does .min() of an empty concatenation
all_convolved_data(bands, sim_max_fc, t) ==
    LET ils == AsSeq([b \in 1 .. Len(bands) |-> intensities_line(bands[b], sim_max_fc, t)])
    IN IF bands = <<>> \/ \E b \in 1 .. Len(bands) : ils[b].status # "ok"
       THEN Failed("ValueError")
       ELSE LET wl   == Flatten([b \in 1 .. Len(bands) |-> wavenumbers_line(bands[b])])
                il   == ConcatArrays(ils)
                grid == linspace(MinOf(Range(wl)), MaxOf(Range(wl)), GRANULARITY)
            IN [status |-> "ok",
                grid   |-> grid,
                ints   |-> convolve_brod(wl, il, grid)]

InitAgg ==
    /\ Init
    /\ pc = "sim_init"

\* a caller holding the constructed Simulation calls all_convolved_data()
AllConvolvedData ==
    /\ pc = "ready"
    /\ conv_out' = all_convolved_data(vib_bands, max_fc, temp)
    /\ UNCHANGED <<sim_bands, temp_trn, inst_broadening_wl, granularity>>
    /\ UNCHANGED bandVars
    /\ UNCHANGED extVars

NextAgg ==
    \/ SimulationBuildBand
    \/ SimulationMaxFc
    \/ AllConvolvedData

SpecAgg == InitAgg /\ [][NextAgg]_vars

(***************************************************************************)
(* terms.py: the term functions called on their own.                       *)
(***************************************************************************)
\* the variables of the Simulation and of the Sim, at rest
IdleBand ==
    /\ rot_lvls = <<>>
    /\ band_list = <<>>
    /\ fc_data = FcData
    /\ temp = 0
    /\ vib_bands = <<>>
    /\ max_fc = 0
    /\ max_fc_writes = 0
    /\ result = NoResult

IdleSim ==
    /\ sim_bands = <<>>
    /\ temp_trn = 0
    /\ inst_broadening_wl = 0
    /\ granularity = 0
    /\ conv_out = NoConv

\* state.constants: per constant name, one entry per tabulated vibrational
\* level (the same levels as "G")
constants(state) ==
    IF state.name = "X3Sg-"
    THEN [G |-> state.G, B |-> <<2, 2>>, D |-> <<1, 0>>, lamda |-> <<3, 2>>,
          gamma |-> <<1, 2>>, lamda_D |-> <<1, 0>>, gamma_D |-> <<0, 1>>]
    ELSE [G |-> state.G, B |-> <<1, 1>>, D |-> <<0, 1>>, lamda |-> <<2, 1>>,
          gamma |-> <<1, 0>>, lamda_D |-> <<0, 1>>, gamma_D |-> <<1, 1>>]

States == {StateUp, StateLo}

MaxJ == 3

\* branch indices a caller can hand over: 1..3 and their neighbours
BranchIdxs == 0 .. 4

\* the two roots of the characteristic polynomial; np.linalg.eigvals fixes
\* no order between them
Roots == {"+", "-"}

OtherRoot(r) == IF r = "+" THEN "-" ELSE "+"

\* a variant that clamps the index to the last tabulated level
vibrational_term_call_clamped(state, v_qn) ==
    IF InTable(state, v_qn)
    THEN [status |-> "ok", value |-> vibrational_term(state, v_qn)]
    ELSE [status |-> "ok", value |-> state.G[Len(state.G)]]

\* terms.vibrational_term as a call: the lookup or Python's IndexError
vibrational_term_call(state, v_qn) ==
    IF InTable(state, v_qn)
    THEN [status |-> "ok", value |-> vibrational_term(state, v_qn)]
    ELSE [status |-> "IndexError", value |-> 0]

\* terms.rotational_term up to the eigenvalue solve. The constants are read
\* into locals, the locals of the state X3Sg- are adjusted (D negated,
\* lamda_D and gamma_D doubled), and the matrix elements are built from the
\* locals. With H = [[h11, h12], [h12, h22]] the eigenvalues are
\* (h11 + h22 +- sqrt((h11 - h22)^2 + 4 h12^2)) / 2. Values are kept exactly:
\* trace is 3 (h11 + h22), disc is 9 ((h11 - h22)^2 + 4 h12^2) and f2 is
\* 3 times the closed form of sub-level 2.
hamiltonian_of(lookup_table, name, v_qn, j_qn) ==
    LET b  == lookup_table.B[v_qn + 1]
        d  == IF name = "X3Sg-" THEN -lookup_table.D[v_qn + 1] ELSE lookup_table.D[v_qn + 1]
        l  == lookup_table.lamda[v_qn + 1]
        g  == lookup_table.gamma[v_qn + 1]
        ld == IF name = "X3Sg-" THEN 2 * lookup_table.lamda_D[v_qn + 1] ELSE lookup_table.lamda_D[v_qn + 1]
        gd == IF name = "X3Sg-" THEN 2 * lookup_table.gamma_D[v_qn + 1] ELSE lookup_table.gamma_D[v_qn + 1]
        x  == j_qn * (j_qn + 1)
        h11x3 == 3 * b * (x + 2) - 3 * d * (x * x + 8 * x + 4) - 4 * l - 6 * g - 4 * ld * (x + 2) - 12 * gd * (x + 1)
        h22x3 == 3 * b * x - 3 * d * (x * x + 4 * x) + 2 * l - 3 * g + 2 * x * ld - 9 * x * gd
        inx6  == 6 * b - 12 * d * (x + 1) - 3 * g - 4 * ld - 3 * gd * (x + 4)
    IN [trace |-> h11x3 + h22x3,
        disc  |-> (h11x3 - h22x3) * (h11x3 - h22x3) + 4 * x * inx6 * inx6,
        f2    |-> 3 * b * x - 3 * d * x * x + 2 * l - 3 * g + 2 * x * ld - 3 * x * gd]

hamiltonian(state, v_qn, j_qn) == hamiltonian_of(constants(state), state.name, v_qn, j_qn)

\* what rotational_term returns or raises: an eigenvalue (a +- sqrt(b)) / 6,
\* the closed form a / 3, or an error (a ValueError carries the index in a)
Eigenvalue(h, root) == [status |-> "ok", kind |-> "eigenvalue", a |-> h.trace, b |-> h.disc, root |-> root]

ClosedForm(h) == [status |-> "ok", kind |-> "closed", a |-> h.f2, b |-> 0, root |-> "none"]

Raised(kind, arg) == [status |-> kind, kind |-> "none", a |-> arg, b |-> 0, root |-> "none"]

\* a variant whose default case falls back to the third sub-level
rotational_term_default3(state, v_qn, j_qn, branch_idx, first) ==
    IF ~InTable(state, v_qn)
    THEN Raised("IndexError", v_qn)
    ELSE LET h == hamiltonian(state, v_qn, j_qn)
         IN CASE branch_idx = 1 -> Eigenvalue(h, first)
              [] branch_idx = 2 -> ClosedForm(h)
              [] OTHER          -> Eigenvalue(h, OtherRoot(first))

\* terms.rotational_term; first is the root np.linalg.eigvals puts first.
\* The constant lookups raise IndexError past the table.
rotational_term(state, v_qn, j_qn, branch_idx, first) ==
    IF ~InTable(state, v_qn)
    THEN Raised("IndexError", v_qn)
    ELSE LET h == hamiltonian(state, v_qn, j_qn)
         IN CASE branch_idx = 1 -> Eigenvalue(h, first)
              [] branch_idx = 2 -> ClosedForm(h)
              [] branch_idx = 3 -> Eigenvalue(h, OtherRoot(first))
              [] OTHER          -> Raised("ValueError", branch_idx)

InitTerms ==
    /\ IdleBand
    /\ IdleSim
    /\ pc = "terms"
    /\ sim_obj = NoSim
    /\ term_call = NoCall
    /\ gui = NoGui
    /\ par = NoPar

\* a caller evaluates terms.vibrational_term(state, v_qn)
VibrationalTerm(state, v_qn) ==
    /\ pc = "terms"
    /\ term_call' = [fn |-> "vibrational_term", state |-> state.name, v_qn |-> v_qn,
                     j_qn |-> 0, branch_idx |-> 0,
                     ret |-> vibrational_term_call(state, v_qn)]
    /\ UNCHANGED <<sim_obj, gui, par>>
    /\ UNCHANGED bandVars
    /\ UNCHANGED simVars

\* a caller evaluates terms.rotational_term(state, v_qn, j_qn, branch_idx)
RotationalTerm(state, v_qn, j_qn, branch_idx) ==
    /\ pc = "terms"
    /\ \E first \in Roots :
          term_call' = [fn |-> "rotational_term", state |-> state.name, v_qn |-> v_qn,
                        j_qn |-> j_qn, branch_idx |-> branch_idx,
                        ret |-> rotational_term(state, v_qn, j_qn, branch_idx, first)]
    /\ UNCHANGED <<sim_obj, gui, par>>
    /\ UNCHANGED bandVars
    /\ UNCHANGED simVars

NextTerms ==
    \/ \E state \in States : \E v_qn \in VibQns : VibrationalTerm(state, v_qn)
    \/ \E state \in States : \E v_qn \in VibQns : \E j_qn \in 0 .. MaxJ :
          \E branch_idx \in BranchIdxs : RotationalTerm(state, v_qn, j_qn, branch_idx)

SpecTerms == InitTerms /\ [][NextTerms]_vars

(***************************************************************************)
(* terms.py: repeated calls of rotational_term on State objects whose      *)
(* constant tables are kept as state.                                      *)
(***************************************************************************)
MaxCalls == 2

StateNames == {StateUp.name, StateLo.name}

StateNamed(name) == IF name = StateUp.name THEN StateUp ELSE StateLo

\* a variant that adjusts the entries of the table itself
rotational_term_on_inplace(lookup_table, name, v_qn, j_qn, branch_idx, first) ==
    IF (v_qn + 1) \notin DOMAIN lookup_table.B
    THEN [ret |-> Raised("IndexError", v_qn), constants |-> lookup_table]
    ELSE LET h == hamiltonian_of(lookup_table, name, v_qn, j_qn)
         IN [ret |-> CASE branch_idx = 1 -> Eigenvalue(h, first)
                       [] branch_idx = 2 -> ClosedForm(h)
                       [] branch_idx = 3 -> Eigenvalue(h, OtherRoot(first))
                       [] OTHER          -> Raised("ValueError", branch_idx),
             constants |-> IF name = "X3Sg-"
                           THEN [lookup_table EXCEPT !.D[v_qn + 1] = -@,
                                                     !.lamda_D[v_qn + 1] = 2 * @,
                                                     !.gamma_D[v_qn + 1] = 2 * @]
                           ELSE lookup_table]

\* terms.rotational_term as a step on the table it is handed: what it
\* returns or raises, and the table afterwards. d, ld and gd are locals
\* bound to floats; d *= -1 rebinds the local and no statement assigns to
\* an entry of lookup_table.
rotational_term_on(lookup_table, name, v_qn, j_qn, branch_idx, first) ==
    IF (v_qn + 1) \notin DOMAIN lookup_table.B
    THEN [ret |-> Raised("IndexError", v_qn), constants |-> lookup_table]
    ELSE LET h == hamiltonian_of(lookup_table, name, v_qn, j_qn)
         IN [ret |-> CASE branch_idx = 1 -> Eigenvalue(h, first)
                       [] branch_idx = 2 -> ClosedForm(h)
                       [] branch_idx = 3 -> Eigenvalue(h, OtherRoot(first))
                       [] OTHER          -> Raised("ValueError", branch_idx),
             constants |-> lookup_table]

\* the two State objects with their tables, no call made yet
InitCalls ==
    /\ IdleBand
    /\ IdleSim
    /\ pc = "calls"
    /\ sim_obj = NoSim
    /\ gui = NoGui
    /\ par = NoPar
    /\ term_call = [fn |-> "none", calls |-> 0,
                    constants |-> [n \in StateNames |-> constants(StateNamed(n))]]

\* one more call terms.rotational_term(state, v_qn, j_qn, branch_idx) on
\* one of the two State objects
RotationalTermAgain(name, v_qn, j_qn, branch_idx) ==
    /\ pc = "calls"
    /\ term_call.calls < MaxCalls
    /\ \E first \in Roots :
          LET r == rotational_term_on(term_call.constants[name], name, v_qn, j_qn, branch_idx, first)
          IN term_call' = [fn |-> "rotational_term", calls |-> term_call.calls + 1,
                           state |-> name, v_qn |-> v_qn, j_qn |-> j_qn,
                           branch_idx |-> branch_idx, first |-> first, ret |-> r.ret,
                           constants |-> [term_call.constants EXCEPT ![name] = r.constants]]
    /\ UNCHANGED <<sim_obj, gui, par>>
    /\ UNCHANGED bandVars
    /\ UNCHANGED simVars

NextCalls ==
    \E name \in StateNames : \E v_qn \in VibQns : \E j_qn \in 0 .. MaxJ :
        \E branch_idx \in BranchIdxs : RotationalTermAgain(name, v_qn, j_qn, branch_idx)

SpecCalls == InitCalls /\ [][NextCalls]_vars

(***************************************************************************)
(* energy.py: the closed-form rotational term. A term is kept exactly as   *)
(* rational + sign * sqrt(radicand); a negative radicand gives NaN.        *)
(***************************************************************************)
\* state.rotational_terms() (B, D, H) and state.spn_const (lamda, gamma)
rotational_terms(state) == IF state.name = "X3Sg-" THEN <<2, 1, 1>> ELSE <<3, 0, 1>>

spn_const(state) == IF state.name = "X3Sg-" THEN <<3, 1>> ELSE <<1, 2>>

\* branch indices handed to energy.rotational_term: 1..3 and values around
EnergyBranchIdxs == -1 .. 5

\* a variant that rejects a branch index outside 1..3
energy_rotational_term_checked(rot_qn, state, branch_idx) ==
    LET b == rotational_terms(state)[1]
        first_term == b * rot_qn * (rot_qn + 1)
                      - rotational_terms(state)[2] * rot_qn ^ 2 * (rot_qn + 1) ^ 2
                      + rotational_terms(state)[3] * rot_qn ^ 3 * (rot_qn + 1) ^ 3
        sqrt_sign == IF rot_qn = 1 THEN -1 ELSE 1
    IN IF branch_idx = 1
       THEN [status |-> "ok",
             rational |-> first_term + (2 * rot_qn + 3) * b + spn_const(state)[1]
                          + spn_const(state)[2] * (rot_qn + 1),
             sign |-> -sqrt_sign,
             radicand |-> (2 * rot_qn + 3) ^ 2 * b ^ 2 + spn_const(state)[1] ^ 2
                          - 2 * spn_const(state)[1] * b]
       ELSE IF branch_idx = 2
       THEN [status |-> "ok", rational |-> first_term, sign |-> 0, radicand |-> 0]
       ELSE IF branch_idx = 3
       THEN [status |-> "ok",
             rational |-> first_term - (2 * rot_qn - 1) * b - spn_const(state)[1]
                          - spn_const(state)[2] * rot_qn,
             sign |-> sqrt_sign,
             radicand |-> (2 * rot_qn - 1) ^ 2 * b ^ 2 + spn_const(state)[1] ^ 2
                          - 2 * spn_const(state)[1] * b]
       ELSE [status |-> "ValueError", rational |-> 0, sign |-> 0, radicand |-> 0]

\* energy.rotational_term: no statement raises; np.sqrt of a negative
\* number is NaN
energy_rotational_term(rot_qn, state, branch_idx) ==
    LET b == rotational_terms(state)[1]
        first_term == b * rot_qn * (rot_qn + 1)
                      - rotational_terms(state)[2] * rot_qn ^ 2 * (rot_qn + 1) ^ 2
                      + rotational_terms(state)[3] * rot_qn ^ 3 * (rot_qn + 1) ^ 3
        sqrt_sign == IF rot_qn = 1 THEN -1 ELSE 1
    IN IF branch_idx = 1
       THEN [status |-> "ok",
             rational |-> first_term + (2 * rot_qn + 3) * b + spn_const(state)[1]
                          + spn_const(state)[2] * (rot_qn + 1),
             sign |-> -sqrt_sign,
             radicand |-> (2 * rot_qn + 3) ^ 2 * b ^ 2 + spn_const(state)[1] ^ 2
                          - 2 * spn_const(state)[1] * b]
       ELSE IF branch_idx = 2
       THEN [status |-> "ok", rational |-> first_term, sign |-> 0, radicand |-> 0]
       ELSE [status |-> "ok",
             rational |-> first_term - (2 * rot_qn - 1) * b - spn_const(state)[1]
                          - spn_const(state)[2] * rot_qn,
             sign |-> sqrt_sign,
             radicand |-> (2 * rot_qn - 1) ^ 2 * b ^ 2 + spn_const(state)[1] ^ 2
                          - 2 * spn_const(state)[1] * b]

InitEnergy ==
    /\ IdleBand
    /\ IdleSim
    /\ pc = "energy"
    /\ sim_obj = NoSim
    /\ gui = NoGui
    /\ par = NoPar
    /\ term_call = [fn |-> "none", calls |-> 0]

\* one more call energy.rotational_term(rot_qn, state, branch_idx)
EnergyRotationalTerm(rot_qn, state, branch_idx) ==
    /\ pc = "energy"
    /\ term_call.calls < MaxCalls
    /\ term_call' = [fn |-> "rotational_term", calls |-> term_call.calls + 1,
                     state |-> state.name, rot_qn |-> rot_qn, branch_idx |-> branch_idx,
                     ret |-> energy_rotational_term(rot_qn, state, branch_idx)]
    /\ UNCHANGED <<sim_obj, gui, par>>
    /\ UNCHANGED bandVars
    /\ UNCHANGED simVars

NextEnergy ==
    \E rot_qn \in 0 .. MaxJ : \E state \in States : \E branch_idx \in EnergyBranchIdxs :
        EnergyRotationalTerm(rot_qn, state, branch_idx)

SpecEnergy == InitEnergy /\ [][NextEnergy]_vars

(***************************************************************************)
(* sim.py: the construction of a Sim, attribute by attribute, and the      *)
(* calls made on the constructed object.                                   *)
(***************************************************************************)
\* the two members of SimType and one value that is neither
SimTypes == {"ABSORPTION", "EMISSION", "OTHER"}

\* constants.ELECTRONIC_ENERGIES / ELECTRONIC_DEGENERACIES of the molecule
ELECTRONIC_ENERGIES == ("X3Sg-" :> 0) @@ ("B3Su-" :> 10)

ELECTRONIC_DEGENERACIES == ("X3Sg-" :> 3) @@ ("B3Su-" :> 3)

ElectronicStates == <<"X3Sg-", "B3Su-">>

\* temperatures of the electronic and the vibrational mode
ModeTemps == {1, 2}

\* the bands a user asks of a Sim: tabulated pairs
SimVibPairs == (0 .. Len(StateUp.G) - 1) \X (0 .. Len(StateLo.G) - 1)

\* np.exp(-e * PLANC * LIGHT / (BOLTZ * t)) in units in which
\* PLANC LIGHT / BOLTZ is (2/5) ln 2: the power 2^(-2e / 5t), exact for the
\* tabulated energies (multiples of 5) and the temperatures 1 and 2
boltzmann_exp(e, t) ==
    IF e >= 0
    THEN [num |-> 1, den |-> 2 ^ ((2 * e) \div (5 * t))]
    ELSE [num |-> 2 ^ ((2 * (-e)) \div (5 * t)), den |-> 1]

RatScale(g, a) == Reduce(g * a.num, a.den)

\* Sim.get_elc_partition_fn
get_elc_partition_fn(sim) ==
    RatSum([k \in 1 .. Len(ElectronicStates) |->
              RatScale(ELECTRONIC_DEGENERACIES[ElectronicStates[k]],
                       boltzmann_exp(ELECTRONIC_ENERGIES[ElectronicStates[k]], sim.temp_elc))])

\* what a getter of the derived scalars returns or raises
Got(v) == [status |-> "ok", value |-> v]

Unbound == [status |-> "UnboundLocalError", value |-> [num |-> 0, den |-> 1]]

\* a variant that treats every other direction as absorption
get_vib_partition_fn_default(sim) ==
    LET state == IF sim.sim_type = "EMISSION" THEN StateUp ELSE StateLo
        v_qn_max == Len(constants(state).G)
    IN Got(RatSum([v \in 1 .. v_qn_max |->
                     boltzmann_exp(vibrational_term(state, v - 1) - vibrational_term(state, 0),
                                   sim.temp_vib)]))

\* a variant that sums over as many levels as bands were requested
get_vib_partition_fn_requested(sim) ==
    IF sim.sim_type \notin {"EMISSION", "ABSORPTION"}
    THEN Unbound
    ELSE LET state == IF sim.sim_type = "EMISSION" THEN StateUp ELSE StateLo
             v_qn_max == IF Len(sim.bands_arg) < Len(constants(state).G)
                         THEN Len(sim.bands_arg) ELSE Len(constants(state).G)
         IN Got(RatSum([v \in 1 .. v_qn_max |->
                          boltzmann_exp(vibrational_term(state, v - 1) - vibrational_term(state, 0),
                                        sim.temp_vib)]))

\* Sim.get_vib_partition_fn: the match has no default case, so for any other
\* sim_type the locals state and v_qn_max are never bound and range(0,
\* v_qn_max) raises UnboundLocalError
get_vib_partition_fn(sim) ==
    IF sim.sim_type \notin {"EMISSION", "ABSORPTION"}
    THEN Unbound
    ELSE LET state == IF sim.sim_type = "EMISSION" THEN StateUp ELSE StateLo
             v_qn_max == Len(constants(state).G)
         IN Got(RatSum([v \in 1 .. v_qn_max |->
                          boltzmann_exp(vibrational_term(state, v - 1) - vibrational_term(state, 0),
                                        sim.temp_vib)]))

\* Sim.get_elc_boltz_frac: reads self.elc_part (AttributeError before it is
\* assigned)
get_elc_boltz_frac(sim) ==
    IF sim.sim_type \notin {"EMISSION", "ABSORPTION"}
    THEN Unbound
    ELSE IF sim.writes.elc_part = 0
    THEN [status |-> "AttributeError", value |-> [num |-> 0, den |-> 1]]
    ELSE LET state == IF sim.sim_type = "EMISSION" THEN StateUp.name ELSE StateLo.name
         IN Got(RatDiv(RatScale(ELECTRONIC_DEGENERACIES[state],
                                boltzmann_exp(ELECTRONIC_ENERGIES[state], sim.temp_elc)),
                       sim.elc_part))

\* the Einstein table A[v'][v''] and the predissociation coefficients the
\* constructor loads
EinsteinData == << <<4, 2>>, <<6, 3>> >>

PredissociationData == [f1 |-> <<1, 2>>, f2 |-> <<1, 3>>, f3 |-> <<2, 3>>]

\* Band(sim=self, v_qn_up=band[0], v_qn_lo=band[1]): the lines of the band
\* with their positions
SimBand(v_qn_up, v_qn_lo, lvls) ==
    LET lines == get_allowed_lines(lvls)
    IN [v_qn_up |-> v_qn_up,
        v_qn_lo |-> v_qn_lo,
        lines   |-> AsSeq([k \in 1 .. Len(lines) |->
                             SimLine(wavenumber(lines[k], get_band_origin(v_qn_up, v_qn_lo)))])]

\* Sim.get_bands
get_bands(bands, lvls) ==
    AsSeq([k \in 1 .. Len(bands) |-> SimBand(bands[k][1], bands[k][2], lvls)])

Attrs == {"elc_part", "vib_part", "elc_boltz_frac", "franck_condon", "einstein", "predissociation", "bands"}

Unset == [num |-> 0, den |-> 0]

\* the Sim right after lines 64-73 of __init__: the arguments are stored,
\* no derived attribute is assigned yet
NewSim(sim_type, temp_elc, temp_vib, bands) ==
    [pc |-> "elc_part", sim_type |-> sim_type, temp_elc |-> temp_elc, temp_vib |-> temp_vib,
     temp_rot |-> temp_vib, pressure |-> 1, bands_arg |-> bands,
     elc_part |-> Unset, vib_part |-> Unset, elc_boltz_frac |-> Unset,
     franck_condon |-> <<>>, einstein |-> <<>>, predissociation |-> <<>>,
     writes |-> [a \in Attrs |-> 0], raised |-> "none", raised_in |-> "none"]

InitSimObj ==
    /\ IdleBand
    /\ pc = "sim_obj"
    /\ sim_bands = <<>>
    /\ temp_trn \in TranslationalTemps
    /\ inst_broadening_wl = 1
    /\ granularity = 0
    /\ conv_out = NoConv
    /\ \E sim_type \in SimTypes : \E temp_elc \in ModeTemps : \E temp_vib \in ModeTemps :
          \E bands \in SeqsUpTo(SimVibPairs, MaxSimBands) :
              sim_obj = NewSim(sim_type, temp_elc, temp_vib, bands)
    /\ term_call = NoCall
    /\ gui = NoGui
    /\ par = NoPar

Assign(sim, attr, v) ==
    [sim EXCEPT ![attr] = v, !.writes[attr] = @ + 1]

Raise(sim, kind, where) ==
    [sim EXCEPT !.pc = "raised", !.raised = kind, !.raised_in = where]

SimFrame == UNCHANGED <<temp_trn, inst_broadening_wl, granularity, term_call, gui, par>> /\ UNCHANGED bandVars

\* self.elc_part = self.get_elc_partition_fn()
SimElcPart ==
    /\ sim_obj.pc = "elc_part"
    /\ sim_obj' = [Assign(sim_obj, "elc_part", get_elc_partition_fn(sim_obj)) EXCEPT !.pc = "vib_part"]
    /\ UNCHANGED <<sim_bands, conv_out>>
    /\ SimFrame

\* self.vib_part = self.get_vib_partition_fn()
SimVibPart ==
    /\ sim_obj.pc = "vib_part"
    /\ LET r == get_vib_partition_fn(sim_obj)
       IN sim_obj' = IF r.status = "ok"
                     THEN [Assign(sim_obj, "vib_part", r.value) EXCEPT !.pc = "elc_boltz_frac"]
                     ELSE Raise(sim_obj, r.status, "get_vib_partition_fn")
    /\ UNCHANGED <<sim_bands, conv_out>>
    /\ SimFrame

\* self.elc_boltz_frac = self.get_elc_boltz_frac()
SimElcBoltzFrac ==
    /\ sim_obj.pc = "elc_boltz_frac"
    /\ LET r == get_elc_boltz_frac(sim_obj)
       IN sim_obj' = IF r.status = "ok"
                     THEN [Assign(sim_obj, "elc_boltz_frac", r.value) EXCEPT !.pc = "tables"]
                     ELSE Raise(sim_obj, r.status, "get_elc_boltz_frac")
    /\ UNCHANGED <<sim_bands, conv_out>>
    /\ SimFrame

\* self.franck_condon, self.einstein, self.predissociation: the three
\* tables are loaded
SimTables ==
    /\ sim_obj.pc = "tables"
    /\ sim_obj' = [Assign(Assign(Assign(sim_obj, "franck_condon", FcData),
                                 "einstein", EinsteinData),
                          "predissociation", PredissociationData)
                   EXCEPT !.pc = "bands"]
    /\ UNCHANGED <<sim_bands, conv_out>>
    /\ SimFrame

\* self.bands = self.get_bands(bands): the last statement of __init__
SimGetBands ==
    /\ sim_obj.pc = "bands"
    /\ sim_bands' = get_bands(sim_obj.bands_arg, <<0, 1, 2>>)
    /\ sim_obj' = [sim_obj EXCEPT !.pc = "constructed", !.writes["bands"] = @ + 1]
    /\ UNCHANGED conv_out
    /\ SimFrame

\* intensities of the lines of a band of a Sim
sim_intensities_line(band) ==
    AsSeq([k \in 1 .. Len(band.lines) |-> band.lines[k].wavenumber \div 4])

\* a variant that empties the band list it has run through
all_line_data_consuming(bands) ==
    [out   |-> [fn |-> "all_line_data", status |-> "ok",
                grid |-> [num |-> Flatten([b \in 1 .. Len(bands) |-> sim_wavenumbers_line(bands[b])]), den |-> 1],
                ints |-> [num |-> Flatten([b \in 1 .. Len(bands) |-> sim_intensities_line(bands[b])]), den |-> 1]],
     bands |-> <<>>]

\* Sim.all_line_data: the concatenated line arrays, and self.bands as the
\* call leaves it
all_line_data(bands) ==
    [out   |-> [fn |-> "all_line_data", status |-> "ok",
                grid |-> [num |-> Flatten([b \in 1 .. Len(bands) |-> sim_wavenumbers_line(bands[b])]), den |-> 1],
                ints |-> [num |-> Flatten([b \in 1 .. Len(bands) |-> sim_intensities_line(bands[b])]), den |-> 1]],
     bands |-> bands]

\* a caller holding the constructed Sim calls all_line_data()
SimAllLineData ==
    /\ sim_obj.pc = "constructed"
    /\ conv_out' = all_line_data(sim_bands).out
    /\ sim_bands' = all_line_data(sim_bands).bands
    /\ UNCHANGED sim_obj
    /\ SimFrame

\* a caller holding the constructed Sim calls all_conv_data(...)
SimAllConvData(n) ==
    /\ sim_obj.pc = "constructed"
    /\ conv_out' = [fn |-> "all_conv_data"] @@ all_conv_data(sim_bands, temp_trn, inst_broadening_wl, n)
    /\ UNCHANGED <<sim_obj, sim_bands>>
    /\ SimFrame

NextSimObj ==
    \/ SimElcPart
    \/ SimVibPart
    \/ SimElcBoltzFrac
    \/ SimTables
    \/ SimGetBands
    \/ SimAllLineData
    \/ \E n \in 1 .. MaxGran : SimAllConvData(n)

SpecInit == InitSimObj /\ [][NextSimObj]_vars

(***************************************************************************)
(* band.py and simulation.py: the bands of a Simulation constructed in any *)
(* order.  A construction is a step on the objects it can reach: the Band  *)
(* being built and, through self.sim, the Simulation.                      *)
(***************************************************************************)
\* a variant whose enumeration of the lines consumes the level list of the
\* Simulation: the first level is dropped once a band has been built
BandInit_consuming(vib_qn_up, vib_qn_lo, lvls, fc) ==
    [band     |-> Band(vib_qn_up, vib_qn_lo, lvls, fc),
     rot_lvls |-> IF lvls = <<>> THEN lvls ELSE Tail(lvls),
     fc_data  |-> fc]

\* Band.__init__: the attributes it assigns to self; sim.rot_lvls and
\* sim.molecule.fc_data are read and no statement assigns to them
BandInit(vib_qn_up, vib_qn_lo, lvls, fc) ==
    [band     |-> Band(vib_qn_up, vib_qn_lo, lvls, fc),
     rot_lvls |-> lvls,
     fc_data  |-> fc]

\* the list comprehension of Simulation.__init__ from element k on: the
\* bands in the order of the request, up to the first one that raises
RECURSIVE SequentialBands(_, _, _, _)
SequentialBands(list, k, lvls, fc) ==
    IF k > Len(list) THEN <<>>
    ELSE IF ~BandConstructible(list[k][1], list[k][2], fc) THEN <<>>
    ELSE LET r == BandInit(list[k][1], list[k][2], lvls, fc)
         IN <<r.band>> \o SequentialBands(list, k + 1, r.rot_lvls, r.fc_data)

\* a Simulation whose bands are about to be built, in any order
InitPar ==
    /\ rot_lvls \in AscendingSeqs(MaxRot)
    /\ band_list \in SeqsUpTo(VibPairs, MaxBands)
    /\ fc_data = FcData
    /\ temp = 1
    /\ pc = "par"
    /\ vib_bands = <<>>
    /\ max_fc = 0
    /\ max_fc_writes = 0
    /\ result = NoResult
    /\ IdleSim
    /\ sim_obj = NoSim
    /\ term_call = NoCall
    /\ gui = NoGui
    /\ par = [order |-> <<>>, bands |-> <<>>, rot_lvls |-> rot_lvls, fc_data |-> fc_data]

\* Band(vib_band[0], vib_band[1], self) for the k-th requested band, not
\* built yet, whichever bands have been built before
ParBuildBand(k) ==
    /\ pc = "par"
    /\ k \in DOMAIN band_list
    /\ k \notin DOMAIN par.bands
    /\ LET vib_band == band_list[k]
       IN IF BandConstructible(vib_band[1], vib_band[2], fc_data)
          THEN LET r == BandInit(vib_band[1], vib_band[2], rot_lvls, fc_data)
               IN /\ par' = [par EXCEPT !.order = Append(@, k),
                                        !.bands = (k :> r.band) @@ @]
                  /\ rot_lvls' = r.rot_lvls
                  /\ fc_data' = r.fc_data
                  /\ pc' = pc
          ELSE /\ pc' = BandInitRaises(vib_band[1], vib_band[2], fc_data)
               /\ UNCHANGED <<par, rot_lvls, fc_data>>
    /\ UNCHANGED <<band_list, temp, vib_bands, max_fc, max_fc_writes, result>>
    /\ UNCHANGED simVars
    /\ UNCHANGED <<sim_obj, term_call, gui>>

\* the join: self.vib_bands holds every band, in the order of the request,
\* and self.max_fc is computed from all of them
ParJoin ==
    /\ pc = "par"
    /\ DOMAIN par.bands = DOMAIN band_list
    /\ IF band_list = <<>>
       THEN /\ pc' = "raised_max_fc"
            /\ UNCHANGED <<vib_bands, max_fc, max_fc_writes>>
       ELSE /\ vib_bands' = [k \in 1 .. Len(band_list) |-> par.bands[k]]
            /\ max_fc' = compute_max_fc(vib_bands')
            /\ max_fc_writes' = max_fc_writes + 1
            /\ pc' = "par_joined"
    /\ UNCHANGED <<rot_lvls, band_list, fc_data, temp, result>>
    /\ UNCHANGED simVars
    /\ UNCHANGED extVars

NextPar ==
    \/ \E k \in DOMAIN band_list : ParBuildBand(k)
    \/ ParJoin

SpecPar == InitPar /\ [][NextPar]_vars

(***************************************************************************)
(* band.py: bands built from a level list in any order of the levels.      *)
(***************************************************************************)
\* the sequences over S without a repeated element
InjectiveSeqs(S) ==
    {q \in SeqsUpTo(S, Cardinality(S)) : \A i, j \in DOMAIN q : i # j => q[i] # q[j]}

\* a Simulation given its levels in some order and two tabulated bands
InitLines ==
    /\ rot_lvls \in InjectiveSeqs(0 .. MaxRot)
    /\ band_list \in {q \in SeqsUpTo(SimVibPairs, 2) : Len(q) = 2}
    /\ fc_data = FcData
    /\ temp = 1
    /\ pc = "par"
    /\ vib_bands = <<>>
    /\ max_fc = 0
    /\ max_fc_writes = 0
    /\ result = NoResult
    /\ IdleSim
    /\ sim_obj = NoSim
    /\ term_call = NoCall
    /\ gui = NoGui
    /\ par = [order |-> <<>>, bands |-> <<>>, rot_lvls |-> rot_lvls, fc_data |-> fc_data]

SpecLines == InitLines /\ [][NextPar]_vars

(***************************************************************************)
(* band.py: repeated calls of the normalisation methods of a Band. A call  *)
(* is a step on the objects it can reach: the Band and, through self.sim,  *)
(* the Simulation.                                                         *)
(***************************************************************************)
BandMethods == {"intensities_line", "intensities_conv", "intensities_inst"}

\* a variant whose rescaling is written back to the Band: the factor it
\* multiplies by is kept in franck_condon
band_method_inplace(op, band, broadening, sim_max_fc, t) ==
    [ret    |-> CASE op = "intensities_line" -> intensities_line(band, sim_max_fc, t)
                  [] op = "intensities_conv" -> intensities_conv(band, sim_max_fc, t)
                  [] OTHER -> intensities_inst(band, broadening, sim_max_fc, t),
     band   |-> [band EXCEPT !.franck_condon = @ * @],
     max_fc |-> sim_max_fc]

\* Band.intensities_line, intensities_conv and intensities_inst: the array
\* each returns is built by the call (np.array of the line intensities, the
\* result of a convolution) and /=, *= act on that array; self.lines,
\* self.franck_condon, self.band_origin and self.sim.max_fc are read
band_method(op, band, broadening, sim_max_fc, t) ==
    [ret    |-> CASE op = "intensities_line" -> intensities_line(band, sim_max_fc, t)
                  [] op = "intensities_conv" -> intensities_conv(band, sim_max_fc, t)
                  [] OTHER -> intensities_inst(band, broadening, sim_max_fc, t),
     band   |-> band,
     max_fc |-> sim_max_fc]

\* np.arange(0, n)
arange(n) == [k \in 1 .. n |-> k - 1]

\* a Simulation about to be constructed on tabulated bands, each requested
\* once, with levels as input.py gives them
InitRepeat ==
    /\ \E n \in 0 .. (MaxRot + 1) : rot_lvls = arange(n)
    /\ band_list \in {l \in InjectiveSeqs(SimVibPairs) : Len(l) <= MaxBands}
    /\ fc_data = FcData
    /\ temp \in Temps
    /\ pc = "sim_init"
    /\ vib_bands = <<>>
    /\ max_fc = 0
    /\ max_fc_writes = 0
    /\ result = NoResult
    /\ IdleSim
    /\ sim_obj = NoSim
    /\ term_call = NoCall
    /\ gui = NoGui
    /\ par = [order |-> <<>>, calls |-> 0, last |-> <<>>]

\* one more call of a method on the b-th band of the Simulation; only
\* intensities_inst takes a broadening
CallBandMethod(op, b, broadening) ==
    /\ pc = "ready"
    /\ par.calls < MaxCalls
    /\ b \in DOMAIN vib_bands
    /\ LET r == band_method(op, vib_bands[b], broadening, max_fc, temp)
       IN /\ result' = Returned(op, b, r.ret)
          /\ vib_bands' = [vib_bands EXCEPT ![b] = r.band]
          /\ max_fc' = r.max_fc
    /\ par' = [par EXCEPT !.calls = @ + 1, !.last = <<op, b, broadening>>]
    /\ UNCHANGED <<rot_lvls, band_list, fc_data, temp, pc, max_fc_writes>>
    /\ UNCHANGED simVars
    /\ UNCHANGED <<sim_obj, term_call, gui>>

NextRepeat ==
    \/ SimulationBuildBand
    \/ SimulationMaxFc
    \/ \E op \in BandMethods : \E b \in DOMAIN vib_bands :
          \E broadening \in (IF op = "intensities_inst" THEN Broadenings ELSE {0}) :
              CallBandMethod(op, b, broadening)

SpecRepeat == InitRepeat /\ [][NextRepeat]_vars

(***************************************************************************)
(* gui.py: the band-range text field.  A text is a sequence of characters, *)
(* each a one-character string.                                            *)
(***************************************************************************)
MaxText == 5

MaxRangeText == 7

Digits == {"0", "1", "2"}

\* the characters of a list of ranges, and those with a blank and a letter
RangeChars == {"1", "2", "-", ","}

Chars == RangeChars \cup {" ", "x"}

\* the texts of the field of at most n characters over the set S
TextsOver(S, n) == SeqsUpTo(S, n)

DigitValue(c) == CASE c = "0" -> 0 [] c = "1" -> 1 [] OTHER -> 2

\* str.split(sep): the pieces between the occurrences of sep, at least one
RECURSIVE split(_, _)
split(s, sep) ==
    IF \E i \in DOMAIN s : s[i] = sep
    THEN LET i == CHOOSE k \in DOMAIN s :
                      s[k] = sep /\ \A j \in 1 .. (k - 1) : s[j] # sep
         IN <<SubSeq(s, 1, i - 1)>> \o split(SubSeq(s, i + 1, Len(s)), sep)
    ELSE <<s>>

\* str.strip(): leading and trailing blanks removed
RECURSIVE strip(_)
strip(s) ==
    IF s = <<>> THEN s
    ELSE IF Head(s) = " " THEN strip(Tail(s))
    ELSE IF s[Len(s)] = " " THEN strip(SubSeq(s, 1, Len(s) - 1))
    ELSE s

\* the value of a string of decimal digits
RECURSIVE decimal(_)
decimal(s) ==
    IF s = <<>> THEN 0
    ELSE 10 * decimal(SubSeq(s, 1, Len(s) - 1)) + DigitValue(s[Len(s)])

\* int(s): blanks around the digits are ignored; ValueError for an empty
\* string or for any other character
int(s) ==
    LET t == strip(s)
    IN IF t # <<>> /\ \A i \in DOMAIN t : t[i] \in Digits
       THEN [ok |-> TRUE, value |-> decimal(t)]
       ELSE [ok |-> FALSE, value |-> 0]

\* a variant of the body of the loop that keeps the first two parts of a
\* segment and ignores the others
parse_range_first_two(range_str) ==
    IF \E i \in DOMAIN strip(range_str) : strip(range_str)[i] = "-"
    THEN LET parts == split(range_str, "-")
         IN IF int(parts[1]).ok /\ int(parts[2]).ok
            THEN [ok |-> TRUE, band |-> <<int(parts[1]).value, int(parts[2]).value>>]
            ELSE [ok |-> FALSE, band |-> <<>>]
    ELSE [ok |-> FALSE, band |-> <<>>]

\* the body of the loop of parse_band_ranges: v_up, v_lo = map(int,
\* range_str.split("-")) raises ValueError when a part is not an integer or
\* when there are not exactly two parts; the ValueError is caught
parse_range(range_str) ==
    IF \E i \in DOMAIN strip(range_str) : strip(range_str)[i] = "-"
    THEN LET parts == split(range_str, "-")
         IN IF Len(parts) = 2 /\ int(parts[1]).ok /\ int(parts[2]).ok
            THEN [ok |-> TRUE, band |-> <<int(parts[1]).value, int(parts[2]).value>>]
            ELSE [ok |-> FALSE, band |-> <<>>]
    ELSE [ok |-> FALSE, band |-> <<>>]

\* the loop of parse_band_ranges over the segments from index k on: a band
\* appended for a segment that parses, a message box naming the segment
\* otherwise
RECURSIVE parse_from(_, _, _, _)
parse_from(segments, k, bands, messages) ==
    IF k > Len(segments) THEN [bands |-> bands, messages |-> messages]
    ELSE LET r == parse_range(segments[k])
         IN IF r.ok
            THEN parse_from(segments, k + 1, Append(bands, r.band), messages)
            ELSE parse_from(segments, k + 1, bands, Append(messages, segments[k]))

\* GUI.parse_band_ranges
parse_band_ranges(text) == parse_from(split(text, ","), 1, <<>>, <<>>)

\* the window with some text in the band field and nothing requested yet:
\* a short text over all the characters, or a longer one (two ranges and
\* more) over the characters of a list of ranges
InitGui ==
    /\ IdleBand
    /\ IdleSim
    /\ pc = "gui"
    /\ sim_obj = NoSim
    /\ term_call = NoCall
    /\ par = NoPar
    /\ \E text \in TextsOver(Chars, MaxText) \cup TextsOver(RangeChars, MaxRangeText) :
         gui = [pc |-> "idle", text |-> text, bands |-> <<>>,
                messages |-> <<>>, warning |-> FALSE]

GuiFrame == UNCHANGED <<bandVars, simVars, sim_obj, term_call, par>>

\* GUI.parse_band_ranges called on the text of the field
ParseBandRanges ==
    /\ pc = "gui"
    /\ gui.pc = "idle"
    /\ LET r == parse_band_ranges(gui.text)
       IN gui' = [gui EXCEPT !.pc = "parsed", !.bands = r.bands,
                             !.messages = r.messages]
    /\ GuiFrame

\* GUI.add_simulation with the specific-bands option selected (lines
\* 588-598): the bands are parsed; with no band a warning is shown and the
\* handler returns, otherwise the simulation is run with the bands
AddSimulation ==
    /\ pc = "gui"
    /\ gui.pc = "idle"
    /\ LET r == parse_band_ranges(gui.text)
       IN gui' = [gui EXCEPT !.pc = IF r.bands = <<>> THEN "returned" ELSE "run",
                             !.bands = r.bands,
                             !.messages = r.messages,
                             !.warning = (r.bands = <<>>)]
    /\ GuiFrame

NextGui == ParseBandRanges \/ AddSimulation

SpecGui == InitGui /\ [][NextGui]_vars

(***************************************************************************)
(* gui.py: the window.  The record gui holds the widgets the handlers read *)
(* and write, the curves of the plot, the tabs of the table, and what the  *)
(* last event did.                                                         *)
(***************************************************************************)
\* the largest value set in a spin box of the band ranges
MaxV == 1

\* the number of sample files opened
MaxSamples == 1

\* DEFAULT_TEMPERATURE, in units of 300 K
DEFAULT_TEMPERATURE == 1

\* DEFAULT_LINES, the value of num_lines_spinbox
DEFAULT_LINES == 4

\* DEFAULT_BANDS = "0-0"
DEFAULT_BANDS == <<"0", "-", "0">>

\* the values set in a temperature spin box
WinTemps == {1, 2}

TempBoxes == {"temp_trn_spinbox", "temp_elc_spinbox", "temp_vib_spinbox", "temp_rot_spinbox"}

RangeBoxes == {"v_up_min_spinbox", "v_up_max_spinbox", "v_lo_min_spinbox", "v_lo_max_spinbox"}

\* the texts typed in the band field: one band, two bands, no band, a band
\* past the tables
WinTexts == {DEFAULT_BANDS, <<"1", "-", "0", ",", "0", "-", "1">>, <<"x">>, <<"2", "-", "0">>}

\* Path(filename).name of the files opened
SampleNames == {<<"s">>}

\* f"{n}" of a non-negative integer
RECURSIVE str(_)
str(n) ==
    IF n < 10 THEN <<CHOOSE c \in Digits : DigitValue(c) = n>>
    ELSE str(n \div 10) \o str(n % 10)

\* create_dataframe_tab and addTab: a tab has a name and the rows of its
\* table
Tab(name, rows) == [name |-> name, rows |-> rows]

NoEvent == [handler |-> "none", outcome |-> "none", method |-> "none", warning |-> FALSE, messages |-> <<>>, bands |-> <<>>, sim |-> NoSim]

\* the window as GUI.__init__ leaves it: Equilibrium, every temperature at
\* its default, Specific Bands checked and the band ranges hidden, one empty
\* tab.  The band-range boxes start at min <= max with a single lower level,
\* as the defaults 0, 10, 5, 5 do, within the values used here
NewWindow ==
    [pc |-> "window",
     temp_type_combo |-> "Equilibrium",
     temp_spinbox |-> DEFAULT_TEMPERATURE,
     temp_trn_spinbox |-> DEFAULT_TEMPERATURE,
     temp_elc_spinbox |-> DEFAULT_TEMPERATURE,
     temp_vib_spinbox |-> DEFAULT_TEMPERATURE,
     temp_rot_spinbox |-> DEFAULT_TEMPERATURE,
     radio_specific_bands |-> TRUE,
     radio_band_ranges |-> FALSE,
     band_ranges_line_edit |-> DEFAULT_BANDS,
     v_up_min_spinbox |-> 0,
     v_up_max_spinbox |-> MaxV,
     v_lo_min_spinbox |-> MaxV,
     v_lo_max_spinbox |-> MaxV,
     num_lines_spinbox |-> DEFAULT_LINES,
     hidden |-> TempBoxes \cup {"band_ranges_container"},
     plot |-> <<>>,
     tabs |-> <<Tab(<<"v", "'", "-", "v", "'", "'">>, <<>>)>>,
     samples |-> 0,
     last |-> NoEvent]

InitWindow ==
    /\ IdleBand
    /\ IdleSim
    /\ pc = "window"
    /\ sim_obj = NoSim
    /\ term_call = NoCall
    /\ par = NoPar
    /\ gui = NewWindow

\* GUI.switch_temp_mode (a label is hidden and shown with its spin box)
switch_temp_mode(g) ==
    IF g.temp_type_combo = "Nonequilibrium"
    THEN [g EXCEPT !.hidden = (@ \cup {"temp_spinbox"}) \ TempBoxes]
    ELSE [g EXCEPT !.hidden = (@ \cup TempBoxes) \ {"temp_spinbox"}]

\* a variant that shows the container of the other method
toggle_band_input_method_swapped(g, checked) ==
    IF checked
    THEN [g EXCEPT !.hidden = (@ \cup {"specific_bands_container"}) \ {"band_ranges_container"}]
    ELSE [g EXCEPT !.hidden = (@ \cup {"band_ranges_container"}) \ {"specific_bands_container"}]

\* GUI.toggle_band_input_method
toggle_band_input_method(g, checked) ==
    IF checked
    THEN [g EXCEPT !.hidden = (@ \cup {"band_ranges_container"}) \ {"specific_bands_container"}]
    ELSE [g EXCEPT !.hidden = (@ \cup {"specific_bands_container"}) \ {"band_ranges_container"}]

\* a variant that passes the four spin boxes in either mode
temperatures_boxes(g) ==
    [temp_trn |-> g.temp_trn_spinbox, temp_elc |-> g.temp_elc_spinbox,
     temp_vib |-> g.temp_vib_spinbox, temp_rot |-> g.temp_rot_spinbox]

\* add_simulation, lines 575-582: the temperatures passed to Sim
temperatures(g) ==
    IF g.temp_type_combo = "Nonequilibrium"
    THEN [temp_trn |-> g.temp_trn_spinbox, temp_elc |-> g.temp_elc_spinbox,
          temp_vib |-> g.temp_vib_spinbox, temp_rot |-> g.temp_rot_spinbox]
    ELSE [temp_trn |-> g.temp_spinbox, temp_elc |-> g.temp_spinbox,
          temp_vib |-> g.temp_spinbox, temp_rot |-> g.temp_spinbox]

\* range(a, b + 1)
range(a, b) == [k \in 1 .. (b - a + 1) |-> a + k - 1]

\* a variant whose general case runs through the lower levels first
range_bands_lomajor(v_up_min, v_up_max, v_lo_min, v_lo_max) ==
    IF v_up_min = v_up_max /\ v_lo_min = v_lo_max
    THEN << <<v_up_min, v_lo_min>> >>
    ELSE IF v_up_min = v_up_max
    THEN AsSeq([k \in 1 .. (v_lo_max - v_lo_min + 1) |-> <<v_up_min, range(v_lo_min, v_lo_max)[k]>>])
    ELSE IF v_lo_min = v_lo_max
    THEN AsSeq([k \in 1 .. (v_up_max - v_up_min + 1) |-> <<range(v_up_min, v_up_max)[k], v_lo_min>>])
    ELSE Flatten([i \in 1 .. (v_lo_max - v_lo_min + 1) |->
                    AsSeq([j \in 1 .. (v_up_max - v_up_min + 1) |->
                             <<range(v_up_min, v_up_max)[j], range(v_lo_min, v_lo_max)[i]>>])])

\* add_simulation, lines 616-628: the bands of the four ranges, min <= max
range_bands(v_up_min, v_up_max, v_lo_min, v_lo_max) ==
    IF v_up_min = v_up_max /\ v_lo_min = v_lo_max
    THEN << <<v_up_min, v_lo_min>> >>
    ELSE IF v_up_min = v_up_max
    THEN AsSeq([k \in 1 .. (v_lo_max - v_lo_min + 1) |-> <<v_up_min, range(v_lo_min, v_lo_max)[k]>>])
    ELSE IF v_lo_min = v_lo_max
    THEN AsSeq([k \in 1 .. (v_up_max - v_up_min + 1) |-> <<range(v_up_min, v_up_max)[k], v_lo_min>>])
    ELSE Flatten([i \in 1 .. (v_up_max - v_up_min + 1) |->
                    AsSeq([j \in 1 .. (v_lo_max - v_lo_min + 1) |->
                             <<range(v_up_min, v_up_max)[i], range(v_lo_min, v_lo_max)[j]>>])])

\* add_simulation, lines 587-628: the bands of the method whose radio button
\* is checked, or the warning and the return
requested_bands(g) ==
    IF g.radio_specific_bands
    THEN LET r == parse_band_ranges(g.band_ranges_line_edit)
         IN [method |-> "specific", rejected |-> (r.bands = <<>>), bands |-> r.bands, messages |-> r.messages]
    ELSE IF g.v_up_min_spinbox > g.v_up_max_spinbox \/ g.v_lo_min_spinbox > g.v_lo_max_spinbox
    THEN [method |-> "ranges", rejected |-> TRUE, bands |-> <<>>, messages |-> <<>>]
    ELSE [method |-> "ranges", rejected |-> FALSE,
          bands |-> range_bands(g.v_up_min_spinbox, g.v_up_max_spinbox, g.v_lo_min_spinbox, g.v_lo_max_spinbox),
          messages |-> <<>>]

\* Sim(...) as add_simulation calls it: the arguments are stored and the
\* bands are built by get_bands; a band past the tables raises
SimOf(temps, bands, lvls) ==
    IF \E k \in DOMAIN bands : ~InTable(StateUp, bands[k][1]) \/ ~InTable(StateLo, bands[k][2])
    THEN [pc |-> "raised", temp_trn |-> temps.temp_trn, temp_elc |-> temps.temp_elc,
          temp_vib |-> temps.temp_vib, temp_rot |-> temps.temp_rot,
          bands_arg |-> bands, bands |-> <<>>]
    ELSE [pc |-> "constructed", temp_trn |-> temps.temp_trn, temp_elc |-> temps.temp_elc,
          temp_vib |-> temps.temp_vib, temp_rot |-> temps.temp_rot,
          bands_arg |-> bands, bands |-> get_bands(bands, lvls)]

\* the plot function selected in plot_type_combo: a curve for each band of
\* the Sim
plot_function(sim) == AsSeq([k \in 1 .. Len(sim.bands) |-> <<"band", sim.bands_arg[k]>>])

\* a variant that keeps the tabs already there
band_tabs_appending(tabs, bands, sim) ==
    tabs \o AsSeq([i \in 1 .. Len(bands) |->
                     Tab(str(bands[i][1]) \o <<"-">> \o str(bands[i][2]), sim.bands[i].lines)])

\* add_simulation, lines 702-726: every tab is removed, then a tab is added
\* for each band with the lines of sim.bands[i]
band_tabs(tabs, bands, sim) ==
    AsSeq([i \in 1 .. Len(bands) |->
             Tab(str(bands[i][1]) \o <<"-">> \o str(bands[i][2]), sim.bands[i].lines)])

Event(handler, outcome, req, sim) ==
    [handler |-> handler, outcome |-> outcome, method |-> req.method, warning |-> req.rejected,
     messages |-> req.messages, bands |-> req.bands, sim |-> sim]

\* a variant that clears the plot and the tabs before it looks at the input
add_simulation_clearing(g) ==
    LET req == requested_bands(g)
        sim == SimOf(temperatures(g), req.bands, arange(g.num_lines_spinbox))
    IN IF req.rejected
       THEN [g EXCEPT !.plot = <<>>, !.tabs = <<>>, !.last = Event("add_simulation", "rejected", req, NoSim)]
       ELSE IF sim.pc = "raised"
       THEN [g EXCEPT !.last = Event("add_simulation", "raised", req, sim)]
       ELSE [g EXCEPT !.plot = plot_function(sim),
                      !.tabs = band_tabs(g.tabs, req.bands, sim),
                      !.last = Event("add_simulation", "run", req, sim)]

\* GUI.add_simulation
add_simulation(g) ==
    LET req == requested_bands(g)
        sim == SimOf(temperatures(g), req.bands, arange(g.num_lines_spinbox))
    IN IF req.rejected
       THEN [g EXCEPT !.last = Event("add_simulation", "rejected", req, NoSim)]
       ELSE IF sim.pc = "raised"
       THEN [g EXCEPT !.last = Event("add_simulation", "raised", req, sim)]
       ELSE [g EXCEPT !.plot = plot_function(sim),
                      !.tabs = band_tabs(g.tabs, req.bands, sim),
                      !.last = Event("add_simulation", "run", req, sim)]

\* GUI.add_sample: the dialog is cancelled or the file is no table and the
\* handler returns, the table has no wavenumber column, or the sample is
\* plotted
add_sample(g, name, outcome) ==
    CASE outcome = "cancelled" ->
            [g EXCEPT !.last = [NoEvent EXCEPT !.handler = "add_sample", !.outcome = outcome]]
      [] outcome = "no_column" ->
            [g EXCEPT !.tabs = Append(@, Tab(name, <<>>)),
                      !.samples = @ + 1,
                      !.last = [NoEvent EXCEPT !.handler = "add_sample", !.outcome = outcome]]
      [] OTHER ->
            [g EXCEPT !.tabs = Append(@, Tab(name, <<>>)),
                      !.plot = Append(@, <<"sample", name>>),
                      !.samples = @ + 1,
                      !.last = [NoEvent EXCEPT !.handler = "add_sample", !.outcome = outcome]]

Edited(g) == [g EXCEPT !.last = [NoEvent EXCEPT !.handler = "edit"]]

\* the user selects the other item of temp_type_combo: currentTextChanged
\* calls switch_temp_mode
SwitchTempMode(text) ==
    /\ pc = "window"
    /\ text # gui.temp_type_combo
    /\ gui' = Edited(switch_temp_mode([gui EXCEPT !.temp_type_combo = text]))
    /\ GuiFrame

\* the user sets a temperature spin box that is shown
EditTemp(box, value) ==
    /\ pc = "window"
    /\ box \notin gui.hidden
    /\ gui' = Edited([gui EXCEPT ![box] = value])
    /\ GuiFrame

\* the user clicks the radio button that is not checked: the two buttons
\* are exclusive, and toggled of radio_specific_bands calls
\* toggle_band_input_method with its new state
ClickRadio ==
    /\ pc = "window"
    /\ LET checked == ~gui.radio_specific_bands
       IN gui' = Edited(toggle_band_input_method(
                           [gui EXCEPT !.radio_specific_bands = checked,
                                       !.radio_band_ranges = ~checked], checked))
    /\ GuiFrame

\* the user sets a spin box of the band ranges, shown with its container
EditRange(box, value) ==
    /\ pc = "window"
    /\ "band_ranges_container" \notin gui.hidden
    /\ gui' = Edited([gui EXCEPT ![box] = value])
    /\ GuiFrame

\* the user types in the band field, shown with its container
EditText(text) ==
    /\ pc = "window"
    /\ "specific_bands_container" \notin gui.hidden
    /\ gui' = Edited([gui EXCEPT !.band_ranges_line_edit = text])
    /\ GuiFrame

\* Run Simulation is clicked
RunSimulation ==
    /\ pc = "window"
    /\ gui' = add_simulation(gui)
    /\ GuiFrame

\* Open File is clicked
OpenFile(name, outcome) ==
    /\ pc = "window"
    /\ gui.samples < MaxSamples
    /\ gui' = add_sample(gui, name, outcome)
    /\ GuiFrame

\* the temperature widgets and the run button
NextTemp ==
    \/ \E text \in {"Equilibrium", "Nonequilibrium"} : SwitchTempMode(text)
    \/ \E box \in TempBoxes \cup {"temp_spinbox"} : \E value \in WinTemps : EditTemp(box, value)
    \/ RunSimulation

SpecTemp == InitWindow /\ [][NextTemp]_vars

\* the band widgets and the two buttons
NextWindow ==
    \/ ClickRadio
    \/ \E box \in RangeBoxes : \E value \in 0 .. MaxV : EditRange(box, value)
    \/ \E text \in WinTexts : EditText(text)
    \/ RunSimulation
    \/ \E name \in SampleNames : \E outcome \in {"cancelled", "no_column", "opened"} :
          OpenFile(name, outcome)

SpecWindow == InitWindow /\ [][NextWindow]_vars

(***************************************************************************)
(* Properties of the line enumeration (band.py).                           *)
(***************************************************************************)
Labels == {"r", "p", "rq", "pq"}

\* the positions in band b's line list of the lines of one rotational pair
LinesOfPair(b, up, lo) ==
    {k \in DOMAIN vib_bands[b].lines :
        vib_bands[b].lines[k].rot_qn_up = up /\ vib_bands[b].lines[k].rot_qn_lo = lo}

IdxPairs(b, K) ==
    {<<vib_bands[b].lines[k].branch_idx_up, vib_bands[b].lines[k].branch_idx_lo>> : k \in K}

\* the number of lines of band b with the given label and spin index pair
CountLines(b, label, i, j) ==
    Cardinality({k \in DOMAIN vib_bands[b].lines :
                    /\ vib_bands[b].lines[k].branch = label
                    /\ vib_bands[b].lines[k].branch_idx_up = i
                    /\ vib_bands[b].lines[k].branch_idx_lo = j})

MainCount(b) ==
    Cardinality({k \in DOMAIN vib_bands[b].lines : IsMain(vib_bands[b].lines[k])})

HasLabel(b, label) ==
    \E k \in DOMAIN vib_bands[b].lines : vib_bands[b].lines[k].branch = label

\* C1: every emitted line has rot_qn_up - rot_qn_lo equal to +1 or -1 and an
\* odd rot_qn_lo, whatever levels were requested.
C1_SelectionRuleClosure ==
    \A b \in DOMAIN vib_bands : \A k \in DOMAIN vib_bands[b].lines :
        LET line == vib_bands[b].lines[k]
        IN /\ (line.rot_qn_up - line.rot_qn_lo) \in {1, -1}
           /\ line.rot_qn_lo % 2 = 1

\* a band with R and P lines built from levels that include adjacent even
\* lower levels and equal levels, all of which were filtered out
C1_Witness ==
    /\ \E j, k \in DOMAIN rot_lvls : rot_lvls[k] % 2 = 0 /\ rot_lvls[j] = rot_lvls[k] + 1
    /\ \E b \in DOMAIN vib_bands : HasLabel(b, "r") /\ HasLabel(b, "p")

\* C2: each allowed rotational pair yields exactly the 3 main lines (i, i) and
\* exactly the 3 satellite lines of its family: (3,1),(3,2),(2,1) for R,
\* (1,3),(2,3),(1,2) for P, and nothing else.
C2_BranchExpansion ==
    \A b \in DOMAIN vib_bands : \A up, lo \in Range(rot_lvls) :
        (lo % 2 = 1 /\ (up - lo) \in {1, -1}) =>
            LET K    == LinesOfPair(b, up, lo)
                main == {k \in K : IsMain(vib_bands[b].lines[k])}
                sat  == K \ main
            IN /\ Cardinality(main) = 3
               /\ IdxPairs(b, main) = {<<1, 1>>, <<2, 2>>, <<3, 3>>}
               /\ Cardinality(sat) = 3
               /\ IdxPairs(b, sat) = IF up - lo = 1
                                     THEN {<<3, 1>>, <<3, 2>>, <<2, 1>>}
                                     ELSE {<<1, 3>>, <<2, 3>>, <<1, 2>>}
               /\ \A k \in main : vib_bands[b].lines[k].branch = (IF up - lo = 1 THEN "r" ELSE "p")
               /\ \A k \in sat : vib_bands[b].lines[k].branch = (IF up - lo = 1 THEN "rq" ELSE "pq")

\* a band holding an expanded R pair and an expanded P pair
C2_Witness ==
    \E b \in DOMAIN vib_bands : \E up, lo, up2 \in Range(rot_lvls) :
        /\ lo % 2 = 1 /\ up = lo + 1 /\ up2 = lo - 1
        /\ Cardinality(LinesOfPair(b, up, lo)) = 6
        /\ Cardinality(LinesOfPair(b, up2, lo)) = 6

\* C3: within one band no two lines share (rot_qn_up, rot_qn_lo,
\* branch_idx_up, branch_idx_lo, branch); the main and the satellite test
\* never both fire for one index pair, so not even the four quantum numbers
\* repeat.
C3_NoDuplicateLine ==
    \A b \in DOMAIN vib_bands : \A j, k \in DOMAIN vib_bands[b].lines :
        j # k =>
            LET x == vib_bands[b].lines[j]
                y == vib_bands[b].lines[k]
            IN /\ x # y
               /\ <<x.rot_qn_up, x.rot_qn_lo, x.branch_idx_up, x.branch_idx_lo>>
                    # <<y.rot_qn_up, y.rot_qn_lo, y.branch_idx_up, y.branch_idx_lo>>

\* a band in which three or more rotational pairs were expanded
C3_Witness ==
    \E b \in DOMAIN vib_bands : Len(vib_bands[b].lines) >= 18

\* C9: a line's label agrees with the sign of rot_qn_up - rot_qn_lo and with
\* its spin indices.
C9_LabelConsistent ==
    \A b \in DOMAIN vib_bands : \A k \in DOMAIN vib_bands[b].lines :
        LET line  == vib_bands[b].lines[k]
            delta == line.rot_qn_up - line.rot_qn_lo
        IN /\ line.branch \in Labels
           /\ line.branch \in {"r", "rq"} => delta = 1
           /\ line.branch \in {"p", "pq"} => delta = -1
           /\ line.branch \in {"r", "p"} => line.branch_idx_up = line.branch_idx_lo
           /\ line.branch \in {"rq", "pq"} => line.branch_idx_up # line.branch_idx_lo

\* a band whose lines carry all four labels
C9_Witness ==
    \E b \in DOMAIN vib_bands : \A label \in Labels : HasLabel(b, label)

\* C10: both rotational quantum numbers of every line are requested levels,
\* at the edges of the range too.
C10_LevelsWithinRequest ==
    \A b \in DOMAIN vib_bands : \A k \in DOMAIN vib_bands[b].lines :
        /\ vib_bands[b].lines[k].rot_qn_up \in Range(rot_lvls)
        /\ vib_bands[b].lines[k].rot_qn_lo \in Range(rot_lvls)

\* the lowest and the highest requested level are odd, so each has an allowed
\* partner one step outside the range, and the band has lines
C10_Witness ==
    /\ Len(rot_lvls) >= 3
    /\ rot_lvls[1] % 2 = 1
    /\ rot_lvls[Len(rot_lvls)] % 2 = 1
    /\ \E b \in DOMAIN vib_bands : Len(vib_bands[b].lines) > 0

\* the single band (0, 0) has been constructed
OnlyBand00 ==
    /\ band_list = << <<0, 0>> >>
    /\ Len(vib_bands) = 1

OneMainPerSpinIndex(b) ==
    \A i \in 1 .. 3 : CountLines(b, "r", i, i) = 1 /\ CountLines(b, "p", i, i) = 1

\* C8 as stated: for the levels {1,3} (read as the two levels 1 and 3, or as
\* the levels 1 to 3) the band (0,0) has one R and one P main line per spin
\* index and 9 main lines in all.
C8_AsStated ==
    (OnlyBand00 /\ rot_lvls \in {<<1, 3>>, <<1, 2, 3>>}) =>
        (OneMainPerSpinIndex(1) /\ MainCount(1) = 9)

\* C8 amended: for the levels 1, 2, 3 the band (0,0) has one R and one P main
\* line per spin index, 6 main lines in all (and 6 satellites); for the two
\* levels 1 and 3 alone it has no line.
C8_MainLinesOfOneToThree ==
    OnlyBand00 =>
        /\ rot_lvls = <<1, 2, 3>> =>
              /\ OneMainPerSpinIndex(1)
              /\ MainCount(1) = 6
              /\ Len(vib_bands[1].lines) = 12
        /\ rot_lvls = <<1, 3>> => vib_bands[1].lines = <<>>

C8_Witness ==
    OnlyBand00 /\ rot_lvls = <<1, 2, 3>> /\ pc = "ready" /\ temp = 1

(***************************************************************************)
(* Properties of the cross-band normalisation.                             *)
(***************************************************************************)
\* the largest entry of the array r is fc / mfc
IsPeak(r, fc, mfc) ==
    /\ \E k \in DOMAIN r.num : r.num[k] * mfc = fc * r.den
    /\ \A k \in DOMAIN r.num : r.num[k] * mfc <= fc * r.den

PositiveMax(b) ==
    /\ Len(vib_bands[b].lines) > 0
    /\ \E k \in DOMAIN vib_bands[b].lines : intensity(vib_bands[b].lines[k], temp) > 0

\* C4: the maximum of intensities_line() of a band with a positive maximum
\* raw intensity is franck_condon / max_fc, so the peaks of two bands are in
\* the ratio of their Franck-Condon factors.
C4_PeakIsFcOverMaxFc ==
    /\ (result.op = "intensities_line" /\ PositiveMax(result.band)) =>
          /\ result.status = "ok"
          /\ result.den > 0
          /\ IsPeak(result, vib_bands[result.band].franck_condon, max_fc)
    /\ pc = "ready" =>
          \A a, b \in DOMAIN vib_bands :
              (PositiveMax(a) /\ PositiveMax(b)) =>
                  LET ra == intensities_line(vib_bands[a], max_fc, temp)
                      rb == intensities_line(vib_bands[b], max_fc, temp)
                  IN MaxOf(Range(rb.num)) * ra.den * vib_bands[a].franck_condon
                       = MaxOf(Range(ra.num)) * rb.den * vib_bands[b].franck_condon

\* intensities_line() has returned for the second band of a two-band
\* simulation whose Franck-Condon factors are in the ratio 1 : 0.5, and its
\* peak is one half
C4_Witness ==
    /\ result.op = "intensities_line"
    /\ result.band = 2
    /\ Len(vib_bands) = 2
    /\ vib_bands[1].franck_condon = 2 * vib_bands[2].franck_condon
    /\ PositiveMax(2)
    /\ Len(vib_bands[2].lines) >= 12
    /\ \E k \in DOMAIN result.num : 2 * result.num[k] = result.den

Constructed == pc \in {"ready", "main_line", "main_conv", "main_done"}

\* C5: max_fc is the maximum Franck-Condon factor of all requested bands, is
\* computed once, after the last band was built, and every normalisation
\* read the computed value.
C5_MaxFcOnceBeforeNormalisation ==
    /\ max_fc_writes <= 1
    /\ max_fc_writes = 0 => (max_fc = 0 /\ result = NoResult)
    /\ max_fc_writes = 1 => Len(vib_bands) = Len(band_list)
    /\ Constructed =>
          /\ max_fc_writes = 1
          /\ max_fc = MaxOf({fc_data[band_list[k][1] + 1][band_list[k][2] + 1] : k \in DOMAIN band_list})
          /\ \A b \in DOMAIN vib_bands : vib_bands[b].franck_condon <= max_fc
    /\ result.op # "none" => (max_fc_writes = 1 /\ result.read_max_fc = max_fc /\ max_fc > 0)

\* a normalisation has returned in a two-band run whose second band carries
\* the larger Franck-Condon factor
C5_Witness ==
    /\ result.op \in {"intensities_conv", "get_conv"}
    /\ Len(vib_bands) = 2
    /\ vib_bands[1].franck_condon < vib_bands[2].franck_condon
    /\ max_fc_writes = 1

(***************************************************************************)
(* Properties of Sim.all_conv_data.                                        *)
(***************************************************************************)
AllSimWavenumbers ==
    UNION {Range(sim_wavenumbers_line(sim_bands[b])) : b \in DOMAIN sim_bands}

DopplerPadding ==
    LET first == fwhm_doppler(sim_bands[1].lines[1], temp_trn)
    IN 10 * (IF first > 2 THEN first ELSE 2)

\* C6: the shared grid runs from (minimum line wavenumber - padding) to
\* (maximum + padding) with padding = 10 x max(Doppler FWHM of the first line
\* of the first band, 2).
C6_GridBoundsDopplerPadding ==
    (conv_out.status = "ok" /\ granularity >= 2) =>
        /\ conv_out.grid.num[1]
             = (MinOf(AllSimWavenumbers) - DopplerPadding) * conv_out.grid.den
        /\ conv_out.grid.num[granularity]
             = (MaxOf(AllSimWavenumbers) + DopplerPadding) * conv_out.grid.den

\* C7: grid and intensities both have granularity points, and the intensity
\* at each point is the sum over all bands, each taken once, of the band's
\* intensities_conv on that same grid.
C7_SumOfBandsOnSharedGrid ==
    conv_out.status = "ok" =>
        /\ Len(conv_out.grid.num) = granularity
        /\ Len(conv_out.ints.num) = granularity
        /\ conv_out.ints.den = conv_out.grid.den
        /\ \A i \in 1 .. granularity :
              conv_out.ints.num[i]
                = SumSeq([b \in 1 .. Len(sim_bands) |->
                            sim_intensities_conv(sim_bands[b], inst_broadening_wl,
                                                 conv_out.grid).num[i]])

\* all_conv_data has returned for two bands that both contribute a non-zero
\* intensity at one grid point
C7_Witness ==
    /\ conv_out.status = "ok"
    /\ Len(sim_bands) = 2
    /\ granularity >= 2
    /\ \E i \in 1 .. granularity : \A b \in 1 .. 2 :
          sim_intensities_conv(sim_bands[b], inst_broadening_wl, conv_out.grid).num[i] > 0

(***************************************************************************)
(* Properties of the aggregate spectrum of a Simulation.                   *)
(***************************************************************************)
\* band b's lines alone, convolved on the aggregate grid
BandOnSharedGrid(b) ==
    convolve_brod(wavenumbers_line(vib_bands[b]),
                  intensities_line(vib_bands[b], max_fc, temp),
                  conv_out.grid)

\* C11 as stated: the concatenate-then-convolve aggregate equals, point by
\* point, the sum over the bands of Band.intensities_conv().
C11_AsStated ==
    (conv_out.status = "ok" /\ conv_out.ints.den # 0) =>
        \A i \in 1 .. GRANULARITY :
            LET per_band == [b \in 1 .. Len(vib_bands) |->
                               LET ic == intensities_conv(vib_bands[b], max_fc, temp)
                               IN Reduce(ic.num[i], ic.den)]
            IN RatSum(per_band) = Reduce(conv_out.ints.num[i], conv_out.ints.den)

\* C11 amended: convolution is linear across line sets: the aggregate of
\* all_convolved_data equals, at every grid point, the sum over the bands of
\* the convolution of that band's lines alone on the same aggregate grid
\* (before the per-band peak normalisation of Band.intensities_conv).
C11_ConvolutionLinearOverBands ==
    conv_out.status = "ok" =>
        LET D == conv_out.ints.den
        IN /\ Len(conv_out.grid.num) = GRANULARITY
           /\ Len(conv_out.ints.num) = GRANULARITY
           /\ IF D = 0
              THEN \E b \in 1 .. Len(vib_bands) : BandOnSharedGrid(b).den = 0
              ELSE /\ \A b \in 1 .. Len(vib_bands) :
                        BandOnSharedGrid(b).den # 0 /\ D % BandOnSharedGrid(b).den = 0
                   /\ \A i \in 1 .. GRANULARITY :
                        conv_out.ints.num[i]
                          = SumSeq([b \in 1 .. Len(vib_bands) |->
                                      BandOnSharedGrid(b).num[i]
                                        * (D \div BandOnSharedGrid(b).den)])

\* all_convolved_data has returned for two bands with different
\* Franck-Condon factors that both contribute at one grid point
C11_Witness ==
    /\ conv_out.status = "ok"
    /\ conv_out.ints.den # 0
    /\ Len(vib_bands) = 2
    /\ vib_bands[1].franck_condon # vib_bands[2].franck_condon
    /\ vib_bands[1].band_origin # vib_bands[2].band_origin
    /\ \E i \in 1 .. GRANULARITY : \A b \in 1 .. 2 : BandOnSharedGrid(b).num[i] > 0

(***************************************************************************)
(* Properties of the term functions (terms.py).                            *)
(***************************************************************************)
StateOf(name) == CHOOSE st \in States : st.name = name

\* C12: vibrational_term(state, v_qn) returns the v_qn-th entry of the
\* state's G table for every v_qn inside the table and fails with an
\* IndexError (a LookupError) for every v_qn past its end; it never returns
\* the entry of another level.
C12_VibrationalTermLookup ==
    term_call.fn = "vibrational_term" =>
        LET G == StateOf(term_call.state).G
            v == term_call.v_qn
        IN IF v < Len(G)
           THEN /\ term_call.ret.status = "ok"
                /\ term_call.ret.value = G[v + 1]
                /\ \A w \in 0 .. Len(G) - 1 : w # v => term_call.ret.value # G[w + 1]
           ELSE term_call.ret.status = "IndexError"

\* the lookup has returned the entry of a level other than the first one
C12_Witness ==
    /\ term_call.fn = "vibrational_term"
    /\ term_call.v_qn = 1
    /\ term_call.ret.status = "ok"
    /\ term_call.ret.value = StateOf(term_call.state).G[2]

\* C13: with v_qn inside the table, rotational_term returns a value for
\* every branch_idx in {1,2,3} and raises a ValueError that names the index
\* for every other branch_idx.
C13_BranchIndexChecked ==
    (term_call.fn = "rotational_term" /\ term_call.v_qn < Len(StateOf(term_call.state).G)) =>
        IF term_call.branch_idx \in {1, 2, 3}
        THEN /\ term_call.ret.status = "ok"
             /\ term_call.ret.kind = (IF term_call.branch_idx = 2 THEN "closed" ELSE "eigenvalue")
             /\ term_call.ret.b >= 0
        ELSE /\ term_call.ret.status = "ValueError"
             /\ term_call.ret.a = term_call.branch_idx

\* rotational_term has raised for the branch index 4 at a tabulated level
C13_Witness ==
    /\ term_call.fn = "rotational_term"
    /\ term_call.v_qn = 1
    /\ term_call.j_qn > 0
    /\ term_call.branch_idx = 4
    /\ term_call.ret.status = "ValueError"

(***************************************************************************)
(* Properties of the construction of a Sim (sim.py).                       *)
(***************************************************************************)
Supported(sim) == sim.sim_type \in {"ABSORPTION", "EMISSION"}

\* C14: the construction of a Sim whose direction is neither ABSORPTION nor
\* EMISSION fails inside __init__ (get_vib_partition_fn raises before
\* vib_part is assigned and before any band is built); no constructed Sim
\* has such a direction and no call is ever made on one.
C14_UnsupportedDirectionFails ==
    (sim_obj.pc # "none" /\ ~Supported(sim_obj)) =>
        /\ sim_obj.pc \in {"elc_part", "vib_part", "raised"}
        /\ sim_obj.pc = "raised" =>
              /\ sim_obj.raised = "UnboundLocalError"
              /\ sim_obj.raised_in = "get_vib_partition_fn"
        /\ sim_obj.writes["vib_part"] = 0
        /\ sim_obj.writes["bands"] = 0
        /\ sim_bands = <<>>
        /\ conv_out = NoConv

\* the construction with another direction and two requested bands has
\* raised
C14_Witness ==
    /\ sim_obj.pc = "raised"
    /\ sim_obj.sim_type = "OTHER"
    /\ Len(sim_obj.bands_arg) = 2
    /\ sim_obj.writes["elc_part"] = 1

\* C15 as stated: no Sim is constructed from an empty band list, so no Sim
\* without bands exists on which all_line_data or all_conv_data is called.
C15_EmptyBandListRejected ==
    sim_obj.pc # "none" =>
        /\ (sim_obj.bands_arg = <<>> => sim_obj.pc # "constructed")
        /\ (sim_obj.pc = "constructed" => sim_bands # <<>>)
        /\ (conv_out # NoConv => sim_bands # <<>>)

\* the exponent of the term of level v (counted from 1) of the state the
\* direction selects
VibExponent(sim, v) ==
    LET G == IF sim.sim_type = "EMISSION" THEN StateUp.G ELSE StateLo.G
    IN (2 * (G[v] - G[1])) \div (5 * sim.temp_vib)

VibLevels(sim) == IF sim.sim_type = "EMISSION" THEN DOMAIN StateUp.G ELSE DOMAIN StateLo.G

\* C19: vib_part is the sum over every tabulated level of the state the
\* direction selects (upper for EMISSION, lower for ABSORPTION) of
\* 2^-(exponent of the level relative to v = 0), whatever bands were
\* requested; the v = 0 term is exactly 1 and the sum is at least 1.
C19_VibPartitionOverAllLevels ==
    (sim_obj.pc # "none" /\ sim_obj.writes["vib_part"] = 1) =>
        LET kmax == MaxOf({VibExponent(sim_obj, v) : v \in VibLevels(sim_obj)})
        IN /\ VibExponent(sim_obj, 1) = 0
           /\ sim_obj.vib_part.den > 0
           /\ sim_obj.vib_part.num * (2 ^ kmax)
                = sim_obj.vib_part.den
                    * SumSeq([v \in 1 .. Cardinality(VibLevels(sim_obj)) |->
                                2 ^ (kmax - VibExponent(sim_obj, v))])
           /\ sim_obj.vib_part.num >= sim_obj.vib_part.den

\* an emission Sim asked for a single band has its vib_part, which counts
\* more than the level v = 0
C19_Witness ==
    /\ sim_obj.pc = "constructed"
    /\ sim_obj.sim_type = "EMISSION"
    /\ Len(sim_obj.bands_arg) = 1
    /\ sim_obj.vib_part.num > sim_obj.vib_part.den

\* C20: every derived attribute is assigned at most once, elc_part before
\* elc_boltz_frac and all of them before the bands are built, and once the
\* Sim is constructed no call of all_line_data or all_conv_data changes any
\* attribute (partition functions, Boltzmann fraction, tables,
\* temperatures, pressure, bands).
C20_DerivedScalarsFrozen ==
    /\ [](sim_obj.pc # "none" =>
            /\ \A a \in Attrs : sim_obj.writes[a] <= 1
            /\ sim_obj.writes["elc_boltz_frac"] = 1 => sim_obj.writes["elc_part"] = 1
            /\ sim_obj.writes["bands"] = 1 => \A a \in Attrs : sim_obj.writes[a] = 1
            /\ sim_obj.pc = "constructed" <=> sim_obj.writes["bands"] = 1)
    /\ [][sim_obj.pc = "constructed" =>
            /\ sim_obj' = sim_obj
            /\ sim_bands' = sim_bands
            /\ temp_trn' = temp_trn]_vars

\* all_conv_data has returned a spectrum on a constructed two-band Sim
C20_Witness ==
    /\ sim_obj.pc = "constructed"
    /\ Len(sim_bands) = 2
    /\ conv_out # NoConv
    /\ conv_out.fn = "all_conv_data"
    /\ conv_out.status = "ok"

(***************************************************************************)
(* Properties of the failures of the band pipeline (band.py).              *)
(***************************************************************************)
\* a requested pair with a quantum number past the end of its G table
OutOfTable(vib_band) ==
    vib_band[1] >= Len(StateUp.G) \/ vib_band[2] >= Len(StateLo.G)

\* C16: a requested band with a vibrational quantum number past the table
\* makes Band.__init__ raise (IndexError, the LookupError of
\* vibrational_term) in get_band_origin, before the lines of that band are
\* enumerated; the construction aborts there, max_fc is never assigned, and
\* no simulation ever holds a band with such a quantum number.
C16_OutOfTableBandAborts ==
    pc \notin {"terms", "sim", "sim_obj", "gui"} =>
        LET k == Len(vib_bands) + 1
        IN /\ \A b \in DOMAIN vib_bands : ~OutOfTable(band_list[b])
           /\ \A b \in DOMAIN vib_bands :
                 <<vib_bands[b].vib_qn_up, vib_bands[b].vib_qn_lo>> = band_list[b]
           /\ (k \in DOMAIN band_list /\ OutOfTable(band_list[k])) =>
                 /\ pc \in {"sim_init", "main_build", "raised_get_band_origin"}
                 /\ max_fc_writes = 0
           /\ pc = "raised_get_band_origin" =>
                 (k \in DOMAIN band_list /\ OutOfTable(band_list[k]))
           /\ Constructed => \A j \in DOMAIN band_list : ~OutOfTable(band_list[j])

\* the construction has aborted at the second requested band, after the
\* first one was built with its lines
C16_Witness ==
    /\ pc = "raised_get_band_origin"
    /\ Len(vib_bands) = 1
    /\ Len(vib_bands[1].lines) > 0
    /\ Len(band_list) = 2

\* C17 as stated: when the maximum line intensity of the band is zero or
\* undefined (no lines at all included), intensities_line and
\* intensities_conv raise instead of returning an array, and an array they
\* return never holds NaN.
C17_ZeroMaximumRaises ==
    result.op \in {"intensities_line", "intensities_conv"} =>
        /\ ~PositiveMax(result.band) => result.status # "ok"
        /\ result.status = "ok" => result.den # 0

(***************************************************************************)
(* Properties of the band-range field (gui.py).                            *)
(***************************************************************************)
\* the index of the k-th comma of a text; 0 for k = 0 and one past the end
\* when the text has fewer commas
CommaAt(text, k) ==
    IF k = 0 THEN 0
    ELSE IF Cardinality({i \in DOMAIN text : text[i] = ","}) < k THEN Len(text) + 1
    ELSE CHOOSE i \in DOMAIN text :
             /\ text[i] = ","
             /\ Cardinality({j \in 1 .. i : text[j] = ","}) = k

\* the comma-separated segments of a text
Segments(text) ==
    [k \in 1 .. (Cardinality({i \in DOMAIN text : text[i] = ","}) + 1) |->
        SubSeq(text, CommaAt(text, k - 1) + 1, CommaAt(text, k) - 1)]

\* s is an integer: a non-empty run of digits, with blanks around it at most
IsInteger(s) ==
    \E a, b \in DOMAIN s :
        /\ a <= b
        /\ \A i \in DOMAIN s : IF a <= i /\ i <= b THEN s[i] \in Digits ELSE s[i] = " "

\* the value of an integer, digit by digit
RECURSIVE Power10(_)
Power10(n) == IF n = 0 THEN 1 ELSE 10 * Power10(n - 1)

RECURSIVE SumUpTo(_, _)
SumUpTo(f, n) == IF n = 0 THEN 0 ELSE SumUpTo(f, n - 1) + f[n]

IntegerValue(s) ==
    LET last == CHOOSE b \in DOMAIN s : s[b] \in Digits /\ \A i \in (b + 1) .. Len(s) : s[i] = " "
    IN SumUpTo([i \in DOMAIN s |->
                   IF s[i] \in Digits THEN DigitValue(s[i]) * Power10(last - i) ELSE 0],
               Len(s))

\* a segment of the form <int>-<int>
WellFormed(seg) ==
    \E d \in DOMAIN seg :
        /\ seg[d] = "-"
        /\ IsInteger(SubSeq(seg, 1, d - 1))
        /\ IsInteger(SubSeq(seg, d + 1, Len(seg)))

PairOf(seg) ==
    LET d == CHOOSE i \in DOMAIN seg : seg[i] = "-"
    IN <<IntegerValue(SubSeq(seg, 1, d - 1)), IntegerValue(SubSeq(seg, d + 1, Len(seg)))>>

\* the segments of a sequence that satisfy, or do not satisfy, WellFormed
RECURSIVE Keep(_, _)
Keep(segs, wanted) ==
    IF segs = <<>> THEN <<>>
    ELSE IF WellFormed(Head(segs)) = wanted THEN <<Head(segs)>> \o Keep(Tail(segs), wanted)
    ELSE Keep(Tail(segs), wanted)

Cheung(lookup_table) ==
    [lookup_table EXCEPT !.D = [k \in DOMAIN @ |-> -@[k]],
                         !.lamda_D = [k \in DOMAIN @ |-> 2 * @[k]],
                         !.gamma_D = [k \in DOMAIN @ |-> 2 * @[k]]]

\* the matrix elements built from a table as it stands
Unadjusted(lookup_table, v_qn, j_qn) == hamiltonian_of(lookup_table, "", v_qn, j_qn)

\* C22: rotational_term builds the matrix elements of the state X3Sg- from
\* D negated and lamda_D, gamma_D doubled, and those of any other state
\* from the constants as tabulated; after any number of calls the tables of
\* the states are the ones they had before the first, so that a call
\* returns what the first call with its arguments returned.
C22_AdjustmentLocalToCall ==
    pc = "calls" =>
        /\ \A n \in StateNames : term_call.constants[n] = constants(StateNamed(n))
        /\ (term_call.fn = "rotational_term" /\ term_call.ret.status = "ok") =>
              LET table == constants(StateNamed(term_call.state))
                  h == IF term_call.state = "X3Sg-"
                       THEN Unadjusted(Cheung(table), term_call.v_qn, term_call.j_qn)
                       ELSE Unadjusted(table, term_call.v_qn, term_call.j_qn)
              IN /\ term_call.ret.kind = "eigenvalue" =>
                       (term_call.ret.a = h.trace /\ term_call.ret.b = h.disc)
                 /\ term_call.ret.kind = "closed" => term_call.ret.a = h.f2

\* a second call on the state X3Sg- has returned a term that the constants
\* as tabulated would not give
C22_Witness ==
    /\ pc = "calls"
    /\ term_call.calls = 2
    /\ term_call.state = "X3Sg-"
    /\ term_call.ret.status = "ok"
    /\ term_call.ret.kind = "closed"
    /\ term_call.ret.a # Unadjusted(term_call.constants["X3Sg-"], term_call.v_qn, term_call.j_qn).f2

(***************************************************************************)
(* Properties of the order of the lines of a band.                         *)
(***************************************************************************)
\* the position of a level in a level list without repetition
Pos(lvls, x) == CHOOSE i \in DOMAIN lvls : lvls[i] = x

\* the enumeration key of a line and the lexicographic order on keys
LineKey(lvls, line) ==
    <<Pos(lvls, line.rot_qn_up), Pos(lvls, line.rot_qn_lo), line.branch_idx_up, line.branch_idx_lo>>

RECURSIVE LexLess(_, _)
LexLess(a, b) ==
    /\ a # <<>>
    /\ \/ Head(a) < Head(b)
       \/ Head(a) = Head(b) /\ LexLess(Tail(a), Tail(b))

\* C24: the lines of a band are in enumeration order (position of the
\* upper level in rot_lvls, then position of the lower level, then upper
\* branch index, then lower branch index), and two bands built from the
\* same rot_lvls list their transitions in the same order.
C24_LinesInEnumerationOrder ==
    pc \in {"par", "par_joined"} =>
        /\ \A k \in DOMAIN par.bands :
              LET lines == par.bands[k].lines
              IN \A i, j \in DOMAIN lines :
                    i < j => LexLess(LineKey(rot_lvls, lines[i]), LineKey(rot_lvls, lines[j]))
        /\ \A k, l \in DOMAIN par.bands : par.bands[k].lines = par.bands[l].lines

\* two bands have been built from levels given out of ascending order, with
\* lines of more than one upper level
C24_Witness ==
    /\ pc = "par_joined"
    /\ Len(rot_lvls) >= 3
    /\ rot_lvls[1] > rot_lvls[2]
    /\ band_list[1] # band_list[2]
    /\ \E i, j \in DOMAIN vib_bands[1].lines :
          vib_bands[1].lines[i].rot_qn_up # vib_bands[1].lines[j].rot_qn_up

(***************************************************************************)
(* Properties of the closed-form rotational term (energy.py).              *)
(***************************************************************************)
\* B N (N + 1) - D N^2 (N + 1)^2 + H N^3 (N + 1)^3
UnsplitTerm(state, n) ==
    LET c == rotational_terms(state)
        x == n * (n + 1)
    IN c[1] * x - c[2] * x * x + c[3] * x * x * x

\* (2 N + k)^2 B^2 + lamda^2 - 2 lamda B
Radicand(state, n, k) ==
    LET b == rotational_terms(state)[1]
        l == spn_const(state)[1]
    IN (2 * n + k) * (2 * n + k) * b * b + l * l - 2 * l * b

\* C29: energy.rotational_term raises for no branch index; index 1 gives
\* the expression of sub-level 1, index 2 the unsplit term alone, every
\* other index the expression of sub-level 3, and the square root enters
\* with the opposite sign exactly when rot_qn is 1.
C29_ClosedFormBranches ==
    (pc = "energy" /\ term_call.fn = "rotational_term") =>
        LET state == StateNamed(term_call.state)
            n == term_call.rot_qn
            b == rotational_terms(state)[1]
            l == spn_const(state)[1]
            g == spn_const(state)[2]
            r == term_call.ret
        IN /\ r.status = "ok"
           /\ term_call.branch_idx = 1 =>
                 /\ r.rational = UnsplitTerm(state, n) + (2 * n + 3) * b + l + g * (n + 1)
                 /\ r.radicand = Radicand(state, n, 3)
                 /\ r.sign = IF n = 1 THEN 1 ELSE -1
           /\ term_call.branch_idx = 2 =>
                 /\ r.rational = UnsplitTerm(state, n)
                 /\ r.sign = 0
           /\ term_call.branch_idx \notin {1, 2} =>
                 /\ r.rational = UnsplitTerm(state, n) - (2 * n - 1) * b - l - g * n
                 /\ r.radicand = Radicand(state, n, -1)
                 /\ r.sign = IF n = 1 THEN -1 ELSE 1

\* the term of level 1 has been evaluated with a branch index outside 1..3
C29_Witness ==
    /\ pc = "energy"
    /\ term_call.fn = "rotational_term"
    /\ term_call.rot_qn = 1
    /\ term_call.branch_idx \notin 1 .. 3
    /\ term_call.ret.sign = -1
    /\ term_call.ret.radicand > 0

(***************************************************************************)
(* Properties of repeated normalisation calls (band.py).                   *)
(***************************************************************************)
\* C30: intensities_line, intensities_conv and intensities_inst leave the
\* Band (lines, franck_condon, band_origin) and the max_fc of the
\* Simulation as the construction made them, and after any calls, in any
\* order, a call returns what it returns on the Simulation as constructed:
\* the normalisation never compounds.
C30_NormalisationCallsIdempotent ==
    (pc = "ready" /\ "calls" \in DOMAIN par) =>
        LET built == SequentialBands(band_list, 1, rot_lvls, fc_data)
            fc    == compute_max_fc(built)
        IN /\ vib_bands = built
           /\ max_fc = fc
           /\ max_fc_writes = 1
           /\ par.calls > 0 =>
                 LET last == par.last
                     r == CASE last[1] = "intensities_line" -> intensities_line(built[last[2]], fc, temp)
                            [] last[1] = "intensities_conv" -> intensities_conv(built[last[2]], fc, temp)
                            [] OTHER -> intensities_inst(built[last[2]], last[3], fc, temp)
                 IN /\ result.op = last[1]
                    /\ result.band = last[2]
                    /\ result.status = r.status
                    /\ result.num = r.num
                    /\ result.den = r.den
                    /\ result.read_max_fc = fc

\* methods have been called MaxCalls times on the bands; the last call, of
\* intensities_conv on a band with lines whose Franck-Condon factor is not
\* the largest, has returned an array
C30_Witness ==
    /\ pc = "ready"
    /\ "calls" \in DOMAIN par
    /\ par.calls = MaxCalls
    /\ result.op = "intensities_conv"
    /\ result.status = "ok"
    /\ result.den > 0
    /\ vib_bands[result.band].franck_condon < max_fc
    /\ \E i \in DOMAIN result.num : result.num[i] > 0

(***************************************************************************)
(* Properties of the window (gui.py).                                      *)
(***************************************************************************)
\* add_simulation has just returned or raised
JustRan == pc = "window" /\ gui.last.handler = "add_simulation"

\* C23: a run in Equilibrium mode passes the value of the single temperature
\* box as each of the four temperatures of the Sim, whatever the four
\* nonequilibrium boxes hold; a run in Nonequilibrium mode passes the values
\* of the four boxes, whatever the single box holds.
C23_TemperaturesOfTheMode ==
    (JustRan /\ gui.last.outcome # "rejected") =>
        LET sim == gui.last.sim
        IN IF gui.temp_type_combo = "Equilibrium"
           THEN /\ sim.temp_trn = gui.temp_spinbox
                /\ sim.temp_elc = gui.temp_spinbox
                /\ sim.temp_vib = gui.temp_spinbox
                /\ sim.temp_rot = gui.temp_spinbox
           ELSE /\ gui.temp_type_combo = "Nonequilibrium"
                /\ sim.temp_trn = gui.temp_trn_spinbox
                /\ sim.temp_elc = gui.temp_elc_spinbox
                /\ sim.temp_vib = gui.temp_vib_spinbox
                /\ sim.temp_rot = gui.temp_rot_spinbox

\* a run in Equilibrium mode after the mode was switched back: the hidden
\* boxes hold four values of which two differ from the single temperature
C23_Witness ==
    /\ JustRan
    /\ gui.last.outcome = "run"
    /\ gui.temp_type_combo = "Equilibrium"
    /\ TempBoxes \subseteq gui.hidden
    /\ gui.temp_trn_spinbox # gui.temp_spinbox
    /\ gui.temp_rot_spinbox # gui.temp_spinbox
    /\ gui.temp_elc_spinbox = gui.temp_spinbox

\* C25: with Band Ranges checked, add_simulation warns and constructs no Sim
\* when a min exceeds its max; otherwise its band list is the product of the
\* two ranges, the upper level outermost, in each of the four cases of the
\* branching, and has at least one band.
C25_RangeBandsAreTheProduct ==
    (JustRan /\ ~gui.radio_specific_bands) =>
        LET v_up_min == gui.v_up_min_spinbox
            v_up_max == gui.v_up_max_spinbox
            v_lo_min == gui.v_lo_min_spinbox
            v_lo_max == gui.v_lo_max_spinbox
            n_lo == v_lo_max - v_lo_min + 1
            bands == gui.last.bands
        IN IF v_up_min > v_up_max \/ v_lo_min > v_lo_max
           THEN /\ gui.last.outcome = "rejected"
                /\ gui.last.warning
                /\ gui.last.sim = NoSim
           ELSE /\ gui.last.outcome \in {"run", "raised"}
                /\ ~gui.last.warning
                /\ gui.last.sim.bands_arg = bands
                /\ bands # <<>>
                /\ Len(bands) = (v_up_max - v_up_min + 1) * n_lo
                /\ \A k \in DOMAIN bands :
                      bands[k] = <<v_up_min + ((k - 1) \div n_lo), v_lo_min + ((k - 1) % n_lo)>>

\* a run on two ranges of more than one level each
C25_Witness ==
    /\ JustRan
    /\ ~gui.radio_specific_bands
    /\ gui.last.outcome = "run"
    /\ gui.v_up_min_spinbox < gui.v_up_max_spinbox
    /\ gui.v_lo_min_spinbox < gui.v_lo_max_spinbox
    /\ Len(gui.last.bands) >= 4

\* C26: a click on Run Simulation that is rejected (no band parsed from the
\* text, or a min above its max) constructs no Sim and leaves the curves of
\* the plot and the tabs of the table as they were before the click.
C26_RejectedRunLeavesWindow ==
    [][(pc = "window" /\ gui'.last.handler = "add_simulation"
          /\ \/ gui.radio_specific_bands /\ parse_band_ranges(gui.band_ranges_line_edit).bands = <<>>
             \/ ~gui.radio_specific_bands /\ gui.v_up_min_spinbox > gui.v_up_max_spinbox
             \/ ~gui.radio_specific_bands /\ gui.v_lo_min_spinbox > gui.v_lo_max_spinbox)
         => /\ gui'.last.outcome = "rejected"
            /\ gui'.last.warning
            /\ gui'.last.sim = NoSim
            /\ gui'.plot = gui.plot
            /\ gui'.tabs = gui.tabs]_vars

\* a run has been rejected in a window that shows the two bands of an
\* earlier run and a sample
C26_Witness ==
    /\ JustRan
    /\ gui.last.outcome = "rejected"
    /\ Len(gui.plot) = 3
    /\ Len(gui.tabs) = 3
    /\ gui.tabs[3].name \in SampleNames

Shown(w) == w \notin gui.hidden

\* C28: one of the two band-input containers is shown and the other hidden,
\* the shown one is that of the checked radio button, and add_simulation
\* takes its bands from the method whose container is shown.
C28_ShownMethodIsRead ==
    pc = "window" =>
        /\ Shown("specific_bands_container") # Shown("band_ranges_container")
        /\ Shown("specific_bands_container") = gui.radio_specific_bands
        /\ Shown("band_ranges_container") = gui.radio_band_ranges
        /\ JustRan =>
              IF Shown("specific_bands_container")
              THEN /\ gui.last.method = "specific"
                   /\ gui.last.bands = parse_band_ranges(gui.band_ranges_line_edit).bands
              ELSE /\ gui.last.method = "ranges"
                   /\ gui.last.bands # <<>> =>
                         /\ gui.last.bands[1] = <<gui.v_up_min_spinbox, gui.v_lo_min_spinbox>>
                         /\ gui.last.bands[Len(gui.last.bands)] = <<gui.v_up_max_spinbox, gui.v_lo_max_spinbox>>

\* the radio buttons were toggled to Band Ranges and a run took the bands of
\* the spin boxes, not the band the hidden text names
C28_Witness ==
    /\ JustRan
    /\ gui.radio_band_ranges
    /\ Shown("band_ranges_container")
    /\ gui.last.outcome = "run"
    /\ parse_band_ranges(gui.band_ranges_line_edit).bands # <<>>
    /\ parse_band_ranges(gui.band_ranges_line_edit).bands # gui.last.bands

====
